---------------------------- MODULE Spec2Model ----------------------------
(***************************************************************************)
(* Marathon Tetris core (src/src/core): the 7-bag piece sequencer, the     *)
(* board, and the game controller, modelled as state machines.             *)
(*                                                                         *)
(* Numbers.  JavaScript numbers are doubles; every value the sequencer     *)
(* computes from an integer seed of magnitude below 2^31 is an integer     *)
(* below 2^53, so its arithmetic is exact and is reproduced here with      *)
(* 16-bit limbs (the model checker's integers are 32 bits wide).           *)
(***************************************************************************)
EXTENDS Integers, Sequences, FiniteSets, TLC

VARIABLES
    bag,          \* the sequencer: [currentBag, nextBag, seed]
    twin,         \* a sequencer constructed afresh with the seed of the last reset
    ref,          \* a sequencer with the same seed on which preview is never called
    draws,        \* what next() returned on bag since construction / reset
    twinDraws,    \* what next() returned on twin
    refDraws,     \* what next() returned on ref
    lastPreview,  \* the latest preview on bag: [count |-> n, list |-> what it returned]
    sincePreview, \* what next() returned on bag after the latest preview
    previews,     \* number of preview calls since construction / reset
    usedBeforeReset, \* the last reset found the sequencer drawn from or previewed
    heldTime,     \* the deltaTime of the updates since the direction press, in ticks
    pressedKeys,  \* TetrisApp.pressedKeys: the keys that are down, in the order they went down
    grid,         \* Board.grid: 22 rows of 10 cells, row 0 at the top
    clearResult,  \* what clearLines() returned if it was the latest call, else <<>>
    state,        \* Game.state
    stats,        \* Game.stats: [score, level, lines, combo, backToBack]
    currentPiece, \* Game.currentPiece: [type, position, rotation, locked, lockTimer] or Null
    holdPiece,    \* Game.holdPiece: a type or Null
    canHold,      \* Game.canHold
    dropTimer,    \* Game.dropTimer, in ticks
    lockTimer,    \* Game.lockTimer, in ticks
    dasTimer,     \* Game.dasTimer, in ticks
    dasDirection, \* Game.dasDirection: "left", "right" or Null
    lastWasRotation, \* Game.lastWasRotation
    events,       \* the events emitted by the latest call, in order
    eventHandlers, \* Game.eventHandlers: event type -> the handlers registered, in order
    invoked,      \* the handler calls made by the latest call, in order: [handler, event]
    calls,        \* calls counted against a bound: direct handleLineClears calls, free steps
    op            \* the operation performed last, with its arguments

harnessVars == <<twin, ref, draws, twinDraws, refDraws, lastPreview,
                 sincePreview, previews, usedBeforeReset, heldTime,
                 pressedKeys>>
bagVars == <<bag, harnessVars>>
boardVars == <<grid, clearResult>>
gameVars == <<state, stats, currentPiece, holdPiece, canHold, dropTimer,
              lockTimer, dasTimer, dasDirection, lastWasRotation, events,
              eventHandlers, invoked, calls>>
vars == <<bag, harnessVars, boardVars, gameVars, op>>

-----------------------------------------------------------------------------
(* Bounds of the sequencer harness *)

MaxDraws == 21
MaxPreviews == 1
MaxPreviewCount == 16
MaxCalls == 3
MaxTetrises == 80
TargetTetrises == 250
MaxBoardRows == 3
ProbeMargin == 2
MaxSteps == 1
MaxHandlers == 2
MaxHeldMs == 400
MaxFrames == 2

\* seeds handed to the constructor and to reset(seed)
Seeds == {12345, 54321, -1000}

-----------------------------------------------------------------------------
(* TetrominoType, src/unnamed/part_001 *)

TetrominoType == <<"I", "O", "T", "S", "Z", "J", "L">>
Types == {TetrominoType[i] : i \in 1..7}
Undefined == "undefined"

-----------------------------------------------------------------------------
(* BagRandomizer.random: the linear congruential generator                 *)
(*   seed = (seed * 1664525 + 1013904223) % 2147483648                     *)
(* `%` is JavaScript's remainder: its sign is the sign of the dividend.    *)

LCG_A == 1664525
LCG_C == 1013904223
Int31Max == 2147483647     \* 2^31 - 1; the modulus 2147483648 is Int31Max + 1

\* (x + y) mod 2^31 for 0 <= x, y < 2^31
AddMod31(x, y) == IF x > Int31Max - y THEN (x - (Int31Max - y)) - 1 ELSE x + y

\* (x - y) mod 2^31 for 0 <= x, y < 2^31
SubMod31(x, y) == IF x >= y THEN x - y ELSE (x + (Int31Max - y)) + 1

\* (a * 1664525) mod 2^31 for 0 <= a < 2^31; 1664525 = 25 * 2^16 + 26125
MulMod31(a) ==
    LET a1 == a \div 65536
        a0 == a % 65536
        mid == ((a1 * 26125 + a0 * 25) % 32768) * 65536
    IN  AddMod31(mid, a0 * 26125)

\* the value `seed` takes in random(), for -2^31 < seed < 2^31
LcgNext(seed) ==
    IF seed >= 0
    THEN AddMod31(MulMod31(seed), LCG_C)
    ELSE LET p == -seed IN
         IF p <= 1290                     \* p * 1664525 < 2^31
         THEN LCG_C - p * LCG_A           \* magnitude below 2^31: remainder is the value
         ELSE -SubMod31(MulMod31(p), LCG_C)

\* Math.floor((seed / 2147483648) * k) for -2^31 < seed < 2^31, 1 <= k <= 32
FloorScale(seed, k) ==
    LET p == IF seed >= 0 THEN seed ELSE -seed
        hi == (p \div 65536) * k + (((p % 65536) * k) \div 65536)
        lo == ((p % 65536) * k) % 65536
    IN  IF seed >= 0
        THEN hi \div 32768
        ELSE -((hi \div 32768) + (IF hi % 32768 > 0 \/ lo > 0 THEN 1 ELSE 0))

-----------------------------------------------------------------------------
(* BagRandomizer.fillBag                                                   *)
(* The array is a function on -n .. n-1: a negative index is an ordinary   *)
(* property of a JavaScript array, undefined until written.                *)


\* [bag[i], bag[j]] = [bag[j], bag[i]]
ShuffleSwap(arr, i, j) == [arr EXCEPT ![i] = arr[j], ![j] = arr[i]]

RECURSIVE Shuffle(_, _, _)

\* the body of the shuffle loop at index i, random() having left the generator at s
ShuffleStep(arr, i, s) == Shuffle(ShuffleSwap(arr, i, FloorScale(s, i + 1)), i - 1, s)

\* the shuffle loop from index i down, with the generator at `seed`
Shuffle(arr, i, seed) ==
    IF i <= 0 THEN [arr |-> arr, seed |-> seed]
    ELSE ShuffleStep(arr, i, LcgNext(seed))

\* the array after bag.push(...): the pushed elements on 0 .. n-1
BagArray(pushed) ==
    [k \in (-Len(pushed))..(Len(pushed) - 1) |->
        IF k >= 0 THEN pushed[k + 1] ELSE Undefined]

\* the outcome r of the shuffle as [bag |-> the array, seed |-> the generator]
BagOf(r, n) == [bag |-> [k \in 1..n |-> r.arr[k - 1]], seed |-> r.seed]

\* the shuffle of fillBag on the array `pushed`
FillPushed(pushed, seed) ==
    BagOf(Shuffle(BagArray(pushed), Len(pushed) - 1, seed), Len(pushed))

\* fillBag(b) with the generator at `seed`: [bag |-> the array, seed |-> the generator]
Bag_fillBag(b, seed) == FillPushed(b \o TetrominoType, seed)

\* the sequencer whose two buffers are the outcomes c and n of fillBag
Bag_both(c, n) == [currentBag |-> c.bag, nextBag |-> n.bag, seed |-> n.seed]

\* this.fillBag(this.nextBag), after this.fillBag(this.currentBag) gave c
Bag_second(c, nextBag) == Bag_both(c, Bag_fillBag(nextBag, c.seed))

\* constructor(seed)
Bag_constructor(seed) == Bag_second(Bag_fillBag(<<>>, seed), <<>>)

\* reset(seed) that forgets to empty the two buffers before refilling them
Bag_reset_keepsBuffers(b, seed) == Bag_second(Bag_fillBag(b.currentBag, seed), b.nextBag)

\* reset(seed)
Bag_reset(b, seed) == Bag_second(Bag_fillBag(<<>>, seed), <<>>)

\* the refill of next(): nextBag becomes currentBag, n is the new nextBag
Bag_refilled(b, n) == [currentBag |-> b.nextBag, nextBag |-> n.bag, seed |-> n.seed]

\* return this.currentBag.shift()
Bag_shift(b) ==
    [bag  |-> [b EXCEPT !.currentBag = Tail(b.currentBag)],
     type |-> IF Len(b.currentBag) = 0 THEN Undefined ELSE Head(b.currentBag)]

\* next(): [bag |-> the sequencer afterwards, type |-> the returned type]
Bag_next(b) ==
    Bag_shift(IF Len(b.currentBag) = 0
              THEN Bag_refilled(b, Bag_fillBag(<<>>, b.seed))
              ELSE b)

RECURSIVE PreviewFill(_, _, _)

\* allPieces.push(...tempBag), t being the outcome of this.fillBag(tempBag)
PreviewPush(allPieces, t, count) == PreviewFill(allPieces \o t.bag, t.seed, count)

\* the while loop of preview
PreviewFill(allPieces, seed, count) ==
    IF Len(allPieces) >= count THEN [allPieces |-> allPieces, seed |-> seed]
    ELSE PreviewPush(allPieces, Bag_fillBag(<<>>, seed), count)

\* return allPieces.slice(0, count), r being the outcome of the loop
PreviewSlice(b, r, count) ==
    [bag  |-> [b EXCEPT !.seed = r.seed],
     list |-> SubSeq(r.allPieces, 1, count)]

\* preview(count): [bag |-> the sequencer afterwards, list |-> the returned list]
Bag_preview(b, count) ==
    PreviewSlice(b, PreviewFill(b.currentBag \o b.nextBag, b.seed, count), count)

-----------------------------------------------------------------------------
(* Board dimensions, src/unnamed/part_001 *)

BOARD_WIDTH == 10
BOARD_HEIGHT == 20
HIDDEN_ROWS == 2
TOTAL_HEIGHT == BOARD_HEIGHT + HIDDEN_ROWS

Null == "null"

\* Game.currentPiece when it is null
NoPiece == [type |-> Null]

-----------------------------------------------------------------------------
(* PieceData, src/src/core/piece.ts *)

\* TETROMINO_SHAPES[type][rotation]: rows of the matrix, top row first
TETROMINO_SHAPES ==
    [I |-> << <<<<0,0,0,0>>, <<1,1,1,1>>, <<0,0,0,0>>, <<0,0,0,0>>>>,
              <<<<0,0,1,0>>, <<0,0,1,0>>, <<0,0,1,0>>, <<0,0,1,0>>>>,
              <<<<0,0,0,0>>, <<0,0,0,0>>, <<1,1,1,1>>, <<0,0,0,0>>>>,
              <<<<0,1,0,0>>, <<0,1,0,0>>, <<0,1,0,0>>, <<0,1,0,0>>>> >>,
     O |-> << <<<<0,1,1,0>>, <<0,1,1,0>>, <<0,0,0,0>>, <<0,0,0,0>>>>,
              <<<<0,1,1,0>>, <<0,1,1,0>>, <<0,0,0,0>>, <<0,0,0,0>>>>,
              <<<<0,1,1,0>>, <<0,1,1,0>>, <<0,0,0,0>>, <<0,0,0,0>>>>,
              <<<<0,1,1,0>>, <<0,1,1,0>>, <<0,0,0,0>>, <<0,0,0,0>>>> >>,
     T |-> << <<<<0,1,0>>, <<1,1,1>>, <<0,0,0>>>>,
              <<<<0,1,0>>, <<0,1,1>>, <<0,1,0>>>>,
              <<<<0,0,0>>, <<1,1,1>>, <<0,1,0>>>>,
              <<<<0,1,0>>, <<1,1,0>>, <<0,1,0>>>> >>,
     S |-> << <<<<0,1,1>>, <<1,1,0>>, <<0,0,0>>>>,
              <<<<0,1,0>>, <<0,1,1>>, <<0,0,1>>>>,
              <<<<0,0,0>>, <<0,1,1>>, <<1,1,0>>>>,
              <<<<1,0,0>>, <<1,1,0>>, <<0,1,0>>>> >>,
     Z |-> << <<<<1,1,0>>, <<0,1,1>>, <<0,0,0>>>>,
              <<<<0,0,1>>, <<0,1,1>>, <<0,1,0>>>>,
              <<<<0,0,0>>, <<1,1,0>>, <<0,1,1>>>>,
              <<<<0,1,0>>, <<1,1,0>>, <<1,0,0>>>> >>,
     J |-> << <<<<1,0,0>>, <<1,1,1>>, <<0,0,0>>>>,
              <<<<0,1,1>>, <<0,1,0>>, <<0,1,0>>>>,
              <<<<0,0,0>>, <<1,1,1>>, <<0,0,1>>>>,
              <<<<0,1,0>>, <<0,1,0>>, <<1,1,0>>>> >>,
     L |-> << <<<<0,0,1>>, <<1,1,1>>, <<0,0,0>>>>,
              <<<<0,1,0>>, <<0,1,0>>, <<0,1,1>>>>,
              <<<<0,0,0>>, <<1,1,1>>, <<1,0,0>>>>,
              <<<<1,1,0>>, <<0,1,0>>, <<0,1,0>>>> >>]

\* getShape(type, rotation)
getShape(type, rotation) == TETROMINO_SHAPES[type][rotation + 1]

\* the filled cells of a shape as <<col, row>> offsets, the (row, col) pairs
\* that the loops of isValidPosition and lockPiece do not skip
FilledCells(shape) ==
    {<<col, row>> \in (0..(Len(shape[1]) - 1)) \X (0..(Len(shape) - 1)) :
        shape[row + 1][col + 1] # 0}

\* the filled cells of a piece of the type at the rotation
ShapeCells(type, rotation) == FilledCells(getShape(type, rotation))

\* getSpawnPosition(type)
getSpawnPosition(type) ==
    [x |-> (10 - Len(TETROMINO_SHAPES[type][1][1])) \div 2,
     y |-> IF type = "I" THEN 0 ELSE 1]

-----------------------------------------------------------------------------
(* Board, src/src/core/board.ts *)

EmptyRow == [x \in 1..BOARD_WIDTH |-> Null]

\* createEmptyGrid()
createEmptyGrid == [y \in 1..TOTAL_HEIGHT |-> EmptyRow]

\* this.grid[y][x]
Cell(g, y, x) == g[y + 1][x + 1]

\* isValidPosition that rejects a filled cell above the top of the grid
isValidPosition_noHiddenRows(g, type, position, rotation) ==
    \A c \in ShapeCells(type, rotation) :
        LET boardX == position.x + c[1]
            boardY == position.y + c[2]
        IN  /\ ~(boardX < 0 \/ boardX >= BOARD_WIDTH)
            /\ ~(boardY < 0)
            /\ ~(boardY >= 0 /\ boardY < TOTAL_HEIGHT /\ Cell(g, boardY, boardX) # Null)
            /\ ~(boardY >= TOTAL_HEIGHT)

\* isValidPosition(type, position, rotation) on grid g
isValidPosition(g, type, position, rotation) ==
    \A c \in ShapeCells(type, rotation) :
        LET boardX == position.x + c[1]
            boardY == position.y + c[2]
        IN  /\ ~(boardX < 0 \/ boardX >= BOARD_WIDTH)
            /\ ~(boardY >= 0 /\ boardY < TOTAL_HEIGHT /\ Cell(g, boardY, boardX) # Null)
            /\ ~(boardY >= TOTAL_HEIGHT)

\* lockPiece that writes the cell above each cell of the piece as well
lockPiece_cellAbove(g, type, position, rotation) ==
    LET cells == ShapeCells(type, rotation)
    IN  [y1 \in 1..TOTAL_HEIGHT |-> [x1 \in 1..BOARD_WIDTH |->
            IF \/ <<(x1 - 1) - position.x, (y1 - 1) - position.y>> \in cells
               \/ <<(x1 - 1) - position.x, y1 - position.y>> \in cells
            THEN type ELSE g[y1][x1]]]

\* lockPiece(type, position, rotation): the grid afterwards
lockPiece(g, type, position, rotation) ==
    LET cells == ShapeCells(type, rotation)
    IN  [y1 \in 1..TOTAL_HEIGHT |-> [x1 \in 1..BOARD_WIDTH |->
            IF <<(x1 - 1) - position.x, (y1 - 1) - position.y>> \in cells
            THEN type ELSE g[y1][x1]]]

\* isLineFull(row) that takes a row with any filled cell for a full one
isLineFull_anyCell(g, row) ==
    IF row < 0 \/ row >= TOTAL_HEIGHT THEN FALSE
    ELSE IF Len(g[row + 1]) # BOARD_WIDTH THEN FALSE
    ELSE \E x \in 0..(BOARD_WIDTH - 1) :
            Cell(g, row, x) # Null /\ Cell(g, row, x) # Undefined /\ Cell(g, row, x) \in Types

\* isLineFull(row)
isLineFull(g, row) ==
    IF row < 0 \/ row >= TOTAL_HEIGHT THEN FALSE
    ELSE IF Len(g[row + 1]) # BOARD_WIDTH THEN FALSE
    ELSE \A x \in 0..(BOARD_WIDTH - 1) :
            Cell(g, row, x) # Null /\ Cell(g, row, x) # Undefined /\ Cell(g, row, x) \in Types

\* the removal of a row that empties the row and leaves the rows above in place
RemoveRow_keepsAbove(g, row) ==
    [g EXCEPT ![row + 1] = EmptyRow]

\* this.grid.splice(row, 1); this.grid.unshift(Array(BOARD_WIDTH).fill(null))
RemoveRow(g, row) ==
    <<EmptyRow>> \o SubSeq(g, 1, row) \o SubSeq(g, row + 2, Len(g))

Reverse(q) == [i \in 1..Len(q) |-> q[Len(q) + 1 - i]]

\* the while loop of clearLines, at index `row` with `clearedLines` pushed so far
RECURSIVE ClearScan(_, _, _)
ClearScan(g, row, clearedLines) ==
    IF row < 0 THEN [grid |-> g, clearedLines |-> clearedLines]
    ELSE IF isLineFull(g, row)
         THEN ClearScan(RemoveRow(g, row), row, Append(clearedLines, row))
         ELSE ClearScan(g, row - 1, clearedLines)

\* clearLines that removes the lowest full row only
clearLines_lowestOnly(g) ==
    LET full == {row \in 0..(TOTAL_HEIGHT - 1) : isLineFull(g, row)}
        low == CHOOSE row \in full : \A r \in full : r <= row
    IN  IF full = {} THEN [grid |-> g, lines |-> <<>>]
        ELSE [grid |-> RemoveRow(g, low), lines |-> <<low>>]

\* clearLines(): [grid |-> the grid afterwards, lines |-> the returned list]
clearLines(g) ==
    LET r == ClearScan(g, TOTAL_HEIGHT - 1, <<>>)
    IN  [grid |-> r.grid, lines |-> Reverse(r.clearedLines)]

\* getGhostPosition(type, position, rotation)
RECURSIVE GhostScan(_, _, _, _, _)
GhostScan(g, type, x, ghostY, rotation) ==
    IF isValidPosition(g, type, [x |-> x, y |-> ghostY + 1], rotation)
    THEN GhostScan(g, type, x, ghostY + 1, rotation)
    ELSE ghostY

\* getGhostPosition that returns the row below the last valid one
getGhostPosition_rowBelow(g, type, position, rotation) ==
    [x |-> position.x, y |-> GhostScan(g, type, position.x, position.y, rotation) + 1]

getGhostPosition(g, type, position, rotation) ==
    [x |-> position.x, y |-> GhostScan(g, type, position.x, position.y, rotation)]

-----------------------------------------------------------------------------
(* Timings and scores, src/unnamed/part_001.  Time is counted in ticks of  *)
(* 1/3 ms, the unit in which a frame (1000/60 ms) and every drop interval  *)
(* are whole numbers.                                                      *)

TicksPerMs == 3
LOCK_DELAY == 500 * TicksPerMs
DAS_DELAY == 170 * TicksPerMs
DAS_PERIOD == 50 * TicksPerMs

SCORE_SINGLE == 100
SCORE_DOUBLE == 300
SCORE_TRIPLE == 500
SCORE_TETRIS == 800
SCORE_SOFT_DROP == 1
SCORE_HARD_DROP == 2

\* the level cap one higher
MaxLevel_thirty == 29 + 1

MaxLevel == 29
LinesPerLevel == 10
TargetLines == 999

\* getBoardStats: the rows of column col that hold a block
BlockRows(g, col) == {row \in 0..(TOTAL_HEIGHT - 1) : Cell(g, row, col) # Null}

\* getBoardStats: columnHeights[col], TOTAL_HEIGHT less the first row with a block
ColumnHeight(g, col) ==
    IF BlockRows(g, col) = {} THEN 0
    ELSE TOTAL_HEIGHT - (CHOOSE row \in BlockRows(g, col) :
                            \A r \in BlockRows(g, col) : row <= r)

\* getBoardStats: the empty cells of column col below a block
ColumnHoles(g, col) ==
    Cardinality({row \in 0..(TOTAL_HEIGHT - 1) :
                    /\ Cell(g, row, col) = Null
                    /\ \E r \in BlockRows(g, col) : r < row})

\* Math.abs
Abs(n) == IF n < 0 THEN -n ELSE n

\* getBoardStats: the sum of f over the columns from col on
RECURSIVE ColumnSum(_, _, _)
ColumnSum(f, col, last) ==
    IF col > last THEN 0 ELSE f[col] + ColumnSum(f, col + 1, last)

\* getBoardStats(): the grid is read and left as it is
getBoardStats(g) ==
    [height |-> CHOOSE h \in {ColumnHeight(g, col) : col \in 0..(BOARD_WIDTH - 1)} :
                    \A col \in 0..(BOARD_WIDTH - 1) : ColumnHeight(g, col) <= h,
     holes |-> ColumnSum([col \in 0..(BOARD_WIDTH - 1) |-> ColumnHoles(g, col)],
                         0, BOARD_WIDTH - 1),
     bumpiness |-> ColumnSum([i \in 0..(BOARD_WIDTH - 2) |->
                                 Abs(ColumnHeight(g, i) - ColumnHeight(g, i + 1))],
                             0, BOARD_WIDTH - 2)]

-----------------------------------------------------------------------------
(* Game, src/src/core/game.ts.  A game is the record of its fields; every  *)
(* method maps the game before the call to the game after it.              *)

ZeroStats == [score |-> 0, level |-> 0, lines |-> 0, combo |-> 0, backToBack |-> FALSE]

\* this.eventHandlers.get(type): the handlers registered for the type, or none
HandlersOf(handlers, type) ==
    IF type \in DOMAIN handlers THEN handlers[type] ELSE <<>>

\* handlers.forEach(handler => handler(event)): the calls, in the order of the array
HandlerCalls(handlers, event) ==
    [i \in 1..Len(handlers) |-> [handler |-> handlers[i], event |-> event]]

\* emit(event), e being the event: it is delivered at once to the handlers
\* registered for its type
Emitted(g, e) ==
    [g EXCEPT !.events = Append(@, e),
              !.invoked = @ \o HandlerCalls(HandlersOf(g.eventHandlers, e.type), e)]

\* emit(event)
emit(g, type, data) == Emitted(g, [type |-> type, data |-> data])

\* on(event, handler)
Game_on(g, event, handler) ==
    [g EXCEPT !.eventHandlers =
        (event :> Append(HandlersOf(g.eventHandlers, event), handler)) @@ @]

\* off(event, handler): the class Game defines no method `off`, the call
\* throws a TypeError and the game is as it was
Game_off(g, event, handler) == g

\* getDropInterval that takes one frame per level off the 48, not two
getDropInterval_perLevel(g) ==
    LET a == 48 - g.stats.level
        framesPerDrop == IF a > 1 THEN a ELSE 1
    IN  (framesPerDrop * 1000 * TicksPerMs) \div 60

\* getDropInterval(), in ticks: (framesPerDrop / 60) * 1000 ms
getDropInterval(g) ==
    LET a == 48 - (g.stats.level * 2)
        framesPerDrop == IF a > 1 THEN a ELSE 1
    IN  (framesPerDrop * 1000 * TicksPerMs) \div 60


\* the end of spawnNextPiece: the check of the spawn position
SpawnChecked(g) ==
    IF ~isValidPosition(g.grid, g.currentPiece.type, g.currentPiece.position, 0)
    THEN emit([g EXCEPT !.state = "GAME_OVER"], "game_over", Null)
    ELSE g

\* spawnNextPiece(), n being the outcome of this.bagRandomizer.next()
SpawnDrawn(g, n) ==
    SpawnChecked([g EXCEPT !.bag = n.bag,
                           !.currentPiece = [type |-> n.type,
                                             position |-> getSpawnPosition(n.type),
                                             rotation |-> 0, locked |-> FALSE,
                                             lockTimer |-> 0],
                           !.dropTimer = 0,
                           !.lockTimer = 0,
                           !.lastWasRotation = FALSE])

\* spawnNextPiece()
spawnNextPiece(g) == SpawnDrawn(g, Bag_next(g.bag))

\* reset that leaves the held piece and the hold permission as they are
Game_reset_keepsHold(g, now) ==
    [g EXCEPT !.grid = createEmptyGrid,
              !.bag = Bag_reset(g.bag, now),
              !.state = "IDLE",
              !.stats = ZeroStats,
              !.currentPiece = NoPiece,
              !.dropTimer = 0,
              !.lockTimer = 0,
              !.dasTimer = 0,
              !.dasDirection = Null]

\* reset(); the sequencer is reseeded from the clock
Game_reset(g, now) ==
    [g EXCEPT !.grid = createEmptyGrid,
              !.bag = Bag_reset(g.bag, now),
              !.state = "IDLE",
              !.stats = ZeroStats,
              !.currentPiece = NoPiece,
              !.holdPiece = Null,
              !.canHold = TRUE,
              !.dropTimer = 0,
              !.lockTimer = 0,
              !.dasTimer = 0,
              !.dasDirection = Null]

\* start()
Game_start(g, now) ==
    spawnNextPiece([Game_reset(g, now) EXCEPT !.state = "PLAYING"])

\* movePiece that restarts the lock timer of a soft-locked piece also when
\* the horizontal move is rejected
movePiece_resetsLockTimer(g, dx, dy) ==
    IF g.currentPiece = NoPiece THEN [g |-> g, ok |-> FALSE]
    ELSE LET newPosition == [x |-> g.currentPiece.position.x + dx,
                             y |-> g.currentPiece.position.y + dy]
         IN  IF isValidPosition(g.grid, g.currentPiece.type, newPosition,
                                g.currentPiece.rotation)
             THEN [g  |-> [g EXCEPT !.currentPiece.position = newPosition,
                                    !.lastWasRotation = FALSE,
                                    !.lockTimer = IF dx # 0 /\ g.currentPiece.locked
                                                  THEN 0 ELSE @],
                   ok |-> TRUE]
             ELSE [g  |-> [g EXCEPT !.lockTimer = IF dx # 0 /\ g.currentPiece.locked
                                                  THEN 0 ELSE @],
                   ok |-> FALSE]

\* movePiece(dx, dy): [g |-> the game afterwards, ok |-> the returned boolean]
movePiece(g, dx, dy) ==
    IF g.currentPiece = NoPiece THEN [g |-> g, ok |-> FALSE]
    ELSE LET newPosition == [x |-> g.currentPiece.position.x + dx,
                             y |-> g.currentPiece.position.y + dy]
         IN  IF isValidPosition(g.grid, g.currentPiece.type, newPosition,
                                g.currentPiece.rotation)
             THEN [g  |-> [g EXCEPT !.currentPiece.position = newPosition,
                                    !.lastWasRotation = FALSE,
                                    !.lockTimer = IF dx # 0 /\ g.currentPiece.locked
                                                  THEN 0 ELSE @],
                   ok |-> TRUE]
             ELSE [g |-> g, ok |-> FALSE]

\* WALL_KICK_DATA (J, L, S, T, Z), keyed by <<from, to>>
WALL_KICK_DATA ==
    (<<0, 1>> :> <<[x |-> -1, y |-> 0], [x |-> -1, y |-> 1], [x |-> 0, y |-> -2], [x |-> -1, y |-> -2]>>) @@
    (<<1, 0>> :> <<[x |-> 1, y |-> 0], [x |-> 1, y |-> -1], [x |-> 0, y |-> 2], [x |-> 1, y |-> 2]>>) @@
    (<<1, 2>> :> <<[x |-> 1, y |-> 0], [x |-> 1, y |-> -1], [x |-> 0, y |-> 2], [x |-> 1, y |-> 2]>>) @@
    (<<2, 1>> :> <<[x |-> -1, y |-> 0], [x |-> -1, y |-> 1], [x |-> 0, y |-> -2], [x |-> -1, y |-> -2]>>) @@
    (<<2, 3>> :> <<[x |-> 1, y |-> 0], [x |-> 1, y |-> 1], [x |-> 0, y |-> -2], [x |-> 1, y |-> -2]>>) @@
    (<<3, 2>> :> <<[x |-> -1, y |-> 0], [x |-> -1, y |-> -1], [x |-> 0, y |-> 2], [x |-> -1, y |-> 2]>>) @@
    (<<3, 0>> :> <<[x |-> -1, y |-> 0], [x |-> -1, y |-> -1], [x |-> 0, y |-> 2], [x |-> -1, y |-> 2]>>) @@
    (<<0, 3>> :> <<[x |-> 1, y |-> 0], [x |-> 1, y |-> 1], [x |-> 0, y |-> -2], [x |-> 1, y |-> -2]>>)

\* I_WALL_KICK_DATA, keyed by <<from, to>>
I_WALL_KICK_DATA ==
    (<<0, 1>> :> <<[x |-> -2, y |-> 0], [x |-> 1, y |-> 0], [x |-> -2, y |-> -1], [x |-> 1, y |-> 2]>>) @@
    (<<1, 0>> :> <<[x |-> 2, y |-> 0], [x |-> -1, y |-> 0], [x |-> 2, y |-> 1], [x |-> -1, y |-> -2]>>) @@
    (<<1, 2>> :> <<[x |-> -1, y |-> 0], [x |-> 2, y |-> 0], [x |-> -1, y |-> 2], [x |-> 2, y |-> -1]>>) @@
    (<<2, 1>> :> <<[x |-> 1, y |-> 0], [x |-> -2, y |-> 0], [x |-> 1, y |-> -2], [x |-> -2, y |-> 1]>>) @@
    (<<2, 3>> :> <<[x |-> 2, y |-> 0], [x |-> -1, y |-> 0], [x |-> 2, y |-> 1], [x |-> -1, y |-> -2]>>) @@
    (<<3, 2>> :> <<[x |-> -2, y |-> 0], [x |-> 1, y |-> 0], [x |-> -2, y |-> -1], [x |-> 1, y |-> 2]>>) @@
    (<<3, 0>> :> <<[x |-> 1, y |-> 0], [x |-> -2, y |-> 0], [x |-> 1, y |-> -2], [x |-> -2, y |-> 1]>>) @@
    (<<0, 3>> :> <<[x |-> -1, y |-> 0], [x |-> 2, y |-> 0], [x |-> -1, y |-> 2], [x |-> 2, y |-> -1]>>)

\* getWallKickOffsets(type, fromRotation, toRotation)
getWallKickOffsets(type, fromRotation, toRotation) ==
    LET key == <<fromRotation, toRotation>>
    IN  IF type = "I"
        THEN (IF key \in DOMAIN I_WALL_KICK_DATA THEN I_WALL_KICK_DATA[key] ELSE <<>>)
        ELSE IF type = "O" THEN <<>>
        ELSE (IF key \in DOMAIN WALL_KICK_DATA THEN WALL_KICK_DATA[key] ELSE <<>>)

getNextRotationCW(rotation) == (rotation + 1) % 4

\* getNextRotationCCW that turns clockwise
getNextRotationCCW_clockwise(rotation) == (rotation + 1) % 4

getNextRotationCCW(rotation) == (rotation + 3) % 4

\* the for loop over the kicks in rotatePiece, from the i-th kick on
RECURSIVE TryKicks(_, _, _, _)
TryKicks(g, kicks, i, newRotation) ==
    IF i > Len(kicks) THEN [g |-> g, ok |-> FALSE]
    ELSE LET kickPosition == [x |-> g.currentPiece.position.x + kicks[i].x,
                              y |-> g.currentPiece.position.y + kicks[i].y]
         IN  IF isValidPosition(g.grid, g.currentPiece.type, kickPosition, newRotation)
             THEN [g  |-> [g EXCEPT !.currentPiece.position = kickPosition,
                                    !.currentPiece.rotation = newRotation,
                                    !.lastWasRotation = TRUE,
                                    !.lockTimer = IF g.currentPiece.locked THEN 0 ELSE @],
                   ok |-> TRUE]
             ELSE TryKicks(g, kicks, i + 1, newRotation)

\* rotatePiece(clockwise): [g |-> the game afterwards, ok |-> the returned boolean]
rotatePiece(g, clockwise) ==
    IF g.currentPiece = NoPiece THEN [g |-> g, ok |-> FALSE]
    ELSE LET oldRotation == g.currentPiece.rotation
             newRotation == IF clockwise THEN getNextRotationCW(oldRotation)
                            ELSE getNextRotationCCW(oldRotation)
         IN  IF isValidPosition(g.grid, g.currentPiece.type, g.currentPiece.position,
                                newRotation)
             THEN [g  |-> [g EXCEPT !.currentPiece.rotation = newRotation,
                                    !.lastWasRotation = TRUE,
                                    !.lockTimer = IF g.currentPiece.locked THEN 0 ELSE @],
                   ok |-> TRUE]
             ELSE TryKicks(g, getWallKickOffsets(g.currentPiece.type, oldRotation,
                                                 newRotation), 1, newRotation)

\* isTSpin that does not look at the rotation record
isTSpin_anyMove(board, position, rotation, wasRotation) ==
    LET corners == {<<position.x, position.y>>, <<position.x + 2, position.y>>,
                    <<position.x, position.y + 2>>,
                    <<position.x + 2, position.y + 2>>}
        occupied == {c \in corners :
                        \/ c[1] < 0 \/ c[1] >= 10 \/ c[2] < 0 \/ c[2] >= 22
                        \/ Cell(board, c[2], c[1]) # Null}
    IN  Cardinality(occupied) >= 3

\* isTSpin(board, position, _rotation, lastWasRotation)
isTSpin(board, position, rotation, wasRotation) ==
    IF ~wasRotation THEN FALSE
    ELSE LET corners == {<<position.x, position.y>>, <<position.x + 2, position.y>>,
                         <<position.x, position.y + 2>>,
                         <<position.x + 2, position.y + 2>>}
             occupied == {c \in corners :
                             \/ c[1] < 0 \/ c[1] >= 10 \/ c[2] < 0 \/ c[2] >= 22
                             \/ Cell(board, c[2], c[1]) # Null}
         IN  Cardinality(occupied) >= 3

\* handleLineClears without the back-to-back multiplier
handleLineClears_flatTetris(g, numLines) ==
    LET combo == g.stats.combo + 1
        g1 == [g EXCEPT !.stats.lines = @ + numLines, !.stats.combo = combo]
        g2 == IF combo > 1 THEN emit(g1, "combo", [combo |-> combo]) ELSE g1
        baseScore == CASE numLines = 1 -> SCORE_SINGLE
                       [] numLines = 2 -> SCORE_DOUBLE
                       [] numLines = 3 -> SCORE_TRIPLE
                       [] numLines = 4 -> SCORE_TETRIS
                       [] OTHER -> 0
        backToBack == CASE numLines \in 1..3 -> FALSE
                        [] numLines = 4 -> TRUE
                        [] OTHER -> g.stats.backToBack
        g3 == [g2 EXCEPT !.stats.backToBack = backToBack,
                         !.stats.score = @ + baseScore * (g.stats.level + 1)
                                           + (50 * combo * (g.stats.level + 1))]
        byLines == g3.stats.lines \div LinesPerLevel
        newLevel == IF byLines < MaxLevel THEN byLines ELSE MaxLevel
    IN  IF newLevel > g3.stats.level
        THEN emit([g3 EXCEPT !.stats.level = newLevel], "level_up", [level |-> newLevel])
        ELSE g3

\* handleLineClears(numLines)
handleLineClears(g, numLines) ==
    LET combo == g.stats.combo + 1
        g1 == [g EXCEPT !.stats.lines = @ + numLines, !.stats.combo = combo]
        g2 == IF combo > 1 THEN emit(g1, "combo", [combo |-> combo]) ELSE g1
        baseScore == CASE numLines = 1 -> SCORE_SINGLE
                       [] numLines = 2 -> SCORE_DOUBLE
                       [] numLines = 3 -> SCORE_TRIPLE
                       [] numLines = 4 -> IF g.stats.backToBack
                                          THEN (SCORE_TETRIS * 3) \div 2
                                          ELSE SCORE_TETRIS
                       [] OTHER -> 0
        backToBack == CASE numLines \in 1..3 -> FALSE
                        [] numLines = 4 -> TRUE
                        [] OTHER -> g.stats.backToBack
        g3 == [g2 EXCEPT !.stats.backToBack = backToBack,
                         !.stats.score = @ + baseScore * (g.stats.level + 1)
                                           + (50 * combo * (g.stats.level + 1))]
        byLines == g3.stats.lines \div LinesPerLevel
        newLevel == IF byLines < MaxLevel THEN byLines ELSE MaxLevel
    IN  IF newLevel > g3.stats.level
        THEN emit([g3 EXCEPT !.stats.level = newLevel], "level_up", [level |-> newLevel])
        ELSE g3


\* lockCurrentPiece: this.board.lockPiece(...)
LockCells(g) ==
    [g EXCEPT !.grid = lockPiece(g.grid, g.currentPiece.type, g.currentPiece.position,
                                 g.currentPiece.rotation)]

\* lockCurrentPiece: the T-spin test and the piece_lock event
LockEvents(g) ==
    emit(IF g.currentPiece.type = "T" /\ isTSpin(g.grid, g.currentPiece.position,
                                                 g.currentPiece.rotation,
                                                 g.lastWasRotation)
         THEN emit(g, "tspin", Null) ELSE g,
         "piece_lock", [piece |-> g.currentPiece])

\* lockCurrentPiece: the completion test and the next piece
LockNext(g) ==
    IF g.stats.lines >= TargetLines
    THEN [g EXCEPT !.state = "COMPLETED"]
    ELSE [spawnNextPiece(g) EXCEPT !.canHold = TRUE]

\* the lines of lockCurrentPiece that leave the combo as it is when no line is cleared
LockLines_keepsCombo(g, c) ==
    LockNext(IF Len(c.lines) > 0
             THEN emit(handleLineClears([g EXCEPT !.grid = c.grid], Len(c.lines)),
                       "line_clear", [lines |-> c.lines])
             ELSE [g EXCEPT !.grid = c.grid])

\* lockCurrentPiece: the lines, c being the outcome of this.board.clearLines()
LockLines(g, c) ==
    LockNext(IF Len(c.lines) > 0
             THEN emit(handleLineClears([g EXCEPT !.grid = c.grid], Len(c.lines)),
                       "line_clear", [lines |-> c.lines])
             ELSE [g EXCEPT !.grid = c.grid, !.stats.combo = 0])

\* lockCurrentPiece: from this.board.clearLines() on
LockClear(g) == LockLines(g, clearLines(g.grid))

\* lockCurrentPiece()
lockCurrentPiece(g) ==
    IF g.currentPiece = NoPiece THEN g
    ELSE LockClear(LockEvents(LockCells(g)))

RECURSIVE DropLoop(_, _)

\* the body of the while loop of performHardDrop, m being the outcome of movePiece(0, 1)
DropMoved(g, m, dropDistance) ==
    IF m.ok THEN DropLoop(m.g, dropDistance + 1)
    ELSE [g |-> g, dropDistance |-> dropDistance]

\* the while loop of performHardDrop: the piece as far down as it moves
DropLoop(g, dropDistance) == DropMoved(g, movePiece(g, 0, 1), dropDistance)

\* the end of performHardDrop that scores a row as a soft drop does
DropLock_softScore(d) ==
    lockCurrentPiece([d.g EXCEPT !.stats.score = @ + d.dropDistance * SCORE_SOFT_DROP])

\* the end of performHardDrop, d being the outcome of the loop
DropLock(d) ==
    lockCurrentPiece([d.g EXCEPT !.stats.score = @ + d.dropDistance * SCORE_HARD_DROP])

\* performHardDrop()
performHardDrop(g) ==
    IF g.currentPiece = NoPiece THEN g
    ELSE DropLock(DropLoop(g, 0))


\* the swap of performHold that draws the next piece also when one is held
HoldSwap_alwaysDraws(g) == spawnNextPiece(g)

\* performHold: the swap with the held piece, or the next piece when none is held
HoldSwap(g) ==
    IF g.holdPiece # Null
    THEN [g EXCEPT !.currentPiece =
             [type |-> g.holdPiece,
              position |-> getSpawnPosition(g.holdPiece),
              rotation |-> 0, locked |-> FALSE, lockTimer |-> 0]]
    ELSE spawnNextPiece(g)

\* performHold that leaves canHold as it was
performHold_keepsCanHold(g) ==
    IF g.currentPiece = NoPiece \/ ~g.canHold THEN g
    ELSE [HoldSwap(g) EXCEPT !.holdPiece = g.currentPiece.type,
                             !.dropTimer = 0,
                             !.lockTimer = 0]

\* performHold()
performHold(g) ==
    IF g.currentPiece = NoPiece \/ ~g.canHold THEN g
    ELSE [HoldSwap(g) EXCEPT !.holdPiece = g.currentPiece.type,
                             !.canHold = FALSE,
                             !.dropTimer = 0,
                             !.lockTimer = 0]

\* the for loop of the DAS branch of update: `steps` shifts by dx
RECURSIVE DasLoop(_, _, _)
DasLoop(g, dx, steps) ==
    IF steps <= 0 THEN g ELSE DasLoop(movePiece(g, dx, 0).g, dx, steps - 1)


RECURSIVE GravityLoop(_, _)

\* the body of the gravity loop that does not mark a blocked piece as at rest
GravityMoved_neverRests(g, m, dropInterval) ==
    IF m.ok THEN GravityLoop(m.g, dropInterval)
    ELSE [g EXCEPT !.dropTimer = @ % dropInterval]

\* the body of the gravity loop, m being the outcome of movePiece(0, 1). A step
\* down that fails leaves the piece and the grid as they were, so every later
\* step of the same loop fails too: the rest of the loop sets `locked` again
\* and takes the interval off the timer until less than one interval is left.
GravityMoved(g, m, dropInterval) ==
    IF m.ok THEN GravityLoop(m.g, dropInterval)
    ELSE [g EXCEPT !.currentPiece.locked = TRUE,
                   !.dropTimer = @ % dropInterval]

\* the body of the gravity loop, after this.dropTimer -= dropInterval
GravityStep(g, dropInterval) == GravityMoved(g, movePiece(g, 0, 1), dropInterval)

\* the while loop of the gravity branch of update
GravityLoop(g, dropInterval) ==
    IF g.dropTimer >= dropInterval
    THEN GravityStep([g EXCEPT !.dropTimer = @ - dropInterval], dropInterval)
    ELSE g

\* the shifts of the DAS branch that carry no remainder of a period forward
DasShift_dropsRemainder(g) ==
    [DasLoop(g, IF g.dasDirection = "left" THEN -1 ELSE 1,
             (g.dasTimer - DAS_DELAY) \div DAS_PERIOD)
        EXCEPT !.dasTimer = DAS_DELAY]

\* update: the shifts of the DAS branch, after this.dasTimer += deltaTime
DasShift(g) ==
    [DasLoop(g, IF g.dasDirection = "left" THEN -1 ELSE 1,
             (g.dasTimer - DAS_DELAY) \div DAS_PERIOD)
        EXCEPT !.dasTimer = DAS_DELAY + ((g.dasTimer - DAS_DELAY) % DAS_PERIOD)]

\* the DAS branch that runs also while no direction is armed
UpdateDas_unarmed(g, deltaTime) ==
    IF g.dasTimer + deltaTime >= DAS_DELAY
    THEN DasShift([g EXCEPT !.dasTimer = @ + deltaTime])
    ELSE [g EXCEPT !.dasTimer = @ + deltaTime]

\* update: the DAS branch
UpdateDas(g, deltaTime) ==
    IF g.dasDirection = Null THEN g
    ELSE IF g.dasTimer + deltaTime >= DAS_DELAY
    THEN DasShift([g EXCEPT !.dasTimer = @ + deltaTime])
    ELSE [g EXCEPT !.dasTimer = @ + deltaTime]

\* update: the gravity branch
UpdateGravity(g, deltaTime) ==
    GravityLoop([g EXCEPT !.dropTimer = @ + deltaTime], getDropInterval(g))

\* the lock delay branch that locks only when the timer exceeds the delay
UpdateLock_exceeds(g, deltaTime) ==
    IF g.currentPiece.locked
    THEN IF g.lockTimer + deltaTime > LOCK_DELAY
         THEN lockCurrentPiece([g EXCEPT !.lockTimer = @ + deltaTime])
         ELSE [g EXCEPT !.lockTimer = @ + deltaTime]
    ELSE [g EXCEPT !.lockTimer = 0]

\* update: the lock delay branch
UpdateLock(g, deltaTime) ==
    IF g.currentPiece.locked
    THEN IF g.lockTimer + deltaTime >= LOCK_DELAY
         THEN lockCurrentPiece([g EXCEPT !.lockTimer = @ + deltaTime])
         ELSE [g EXCEPT !.lockTimer = @ + deltaTime]
    ELSE [g EXCEPT !.lockTimer = 0]

\* update that runs in every state in which there is a piece
Game_update_anyState(g, deltaTime) ==
    IF g.currentPiece = NoPiece THEN g
    ELSE UpdateLock(UpdateGravity(UpdateDas(g, deltaTime), deltaTime), deltaTime)

\* update(deltaTime)
Game_update(g, deltaTime) ==
    IF g.state # "PLAYING" \/ g.currentPiece = NoPiece THEN g
    ELSE UpdateLock(UpdateGravity(UpdateDas(g, deltaTime), deltaTime), deltaTime)

\* InputAction
InputAction == {"MOVE_LEFT", "MOVE_RIGHT", "SOFT_DROP", "HARD_DROP",
                "ROTATE_CW", "ROTATE_CCW", "HOLD", "PAUSE"}


\* handleInput: the score of a soft drop, m being the outcome of movePiece(0, 1)
SoftDropped(m) ==
    IF m.ok THEN [m.g EXCEPT !.stats.score = @ + SCORE_SOFT_DROP] ELSE m.g

\* handleInput: the switch over the actions of the piece
PieceInput(g, action, pressed) ==
    CASE action = "MOVE_LEFT" ->
            IF pressed
            THEN [movePiece(g, -1, 0).g EXCEPT !.dasDirection = "left", !.dasTimer = 0]
            ELSE IF g.dasDirection = "left"
                 THEN [g EXCEPT !.dasDirection = Null, !.dasTimer = 0] ELSE g
      [] action = "MOVE_RIGHT" ->
            IF pressed
            THEN [movePiece(g, 1, 0).g EXCEPT !.dasDirection = "right", !.dasTimer = 0]
            ELSE IF g.dasDirection = "right"
                 THEN [g EXCEPT !.dasDirection = Null, !.dasTimer = 0] ELSE g
      [] action = "SOFT_DROP" ->
            IF pressed THEN SoftDropped(movePiece(g, 0, 1)) ELSE g
      [] action = "HARD_DROP" -> IF pressed THEN performHardDrop(g) ELSE g
      [] action = "ROTATE_CW" -> IF pressed THEN rotatePiece(g, TRUE).g ELSE g
      [] action = "ROTATE_CCW" -> IF pressed THEN rotatePiece(g, FALSE).g ELSE g
      [] action = "HOLD" -> IF pressed /\ g.canHold THEN performHold(g) ELSE g
      [] OTHER -> g

\* handleInput whose pause press resumes from every state but Playing
Game_handleInput_resumesAny(g, action, pressed) ==
    IF g.state # "PLAYING"
    THEN (IF action = "PAUSE" /\ pressed
          THEN [g EXCEPT !.state = "PLAYING"] ELSE g)
    ELSE IF action = "PAUSE" /\ pressed THEN [g EXCEPT !.state = "PAUSED"]
    ELSE IF g.currentPiece = NoPiece THEN g
    ELSE PieceInput(g, action, pressed)

\* handleInput(action, pressed)
Game_handleInput(g, action, pressed) ==
    IF g.state # "PLAYING"
    THEN (IF action = "PAUSE" /\ pressed /\ g.state = "PAUSED"
          THEN [g EXCEPT !.state = "PLAYING"] ELSE g)
    ELSE IF action = "PAUSE" /\ pressed THEN [g EXCEPT !.state = "PAUSED"]
    ELSE IF g.currentPiece = NoPiece THEN g
    ELSE PieceInput(g, action, pressed)

(* The accessors.  What an accessor returns is [g |-> the game after the   *)
(* call, value |-> the value returned, ref |-> the field of the game the   *)
(* returned object is, or Null when it is an object of its own or no       *)
(* object, object |-> whether an object is returned].                      *)

\* getStats(): { ...this.stats }
Game_getStats(g) == [g |-> g, value |-> g.stats, ref |-> Null, object |-> TRUE]

\* getBoard().getGrid(): this.grid
Board_getGrid(g) == [g |-> g, value |-> g.grid, ref |-> "grid", object |-> TRUE]

\* getCurrentPiece(): this.currentPiece
Game_getCurrentPiece(g) ==
    [g |-> g, value |-> g.currentPiece, ref |-> "currentPiece",
     object |-> g.currentPiece # NoPiece]

\* getNextPieces(count), p being the outcome of this.bag.preview(count)
NextPieces(g, p) ==
    [g |-> [g EXCEPT !.bag = p.bag], value |-> p.list, ref |-> Null, object |-> TRUE]

\* getNextPieces(count)
Game_getNextPieces(g, count) == NextPieces(g, Bag_preview(g.bag, count))

\* getGhostPosition()
Game_getGhostPosition(g) ==
    IF g.currentPiece = NoPiece
    THEN [g |-> g, value |-> Null, ref |-> Null, object |-> FALSE]
    ELSE [g |-> g,
          value |-> getGhostPosition(g.grid, g.currentPiece.type,
                                     g.currentPiece.position, g.currentPiece.rotation),
          ref |-> Null, object |-> TRUE]

\* new Game(), constructed when the clock reads `now`
Game_constructor(now) ==
    [grid |-> createEmptyGrid,
     bag |-> Bag_constructor(now),
     state |-> "IDLE",
     stats |-> ZeroStats,
     currentPiece |-> NoPiece,
     holdPiece |-> Null,
     canHold |-> TRUE,
     dropTimer |-> 0,
     lockTimer |-> 0,
     dasTimer |-> 0,
     dasDirection |-> Null,
     lastWasRotation |-> FALSE,
     events |-> <<>>,
     eventHandlers |-> <<>>,
     invoked |-> <<>>]

\* new BagRandomizer(s), for every seed of the harness
FreshBag == [s \in Seeds |-> Bag_constructor(s)]

-----------------------------------------------------------------------------
(* The sequencer on its own: construction, next, preview, reset *)

NoPreview == [count |-> 0, list |-> <<>>]

\* the variables of the board and of the game while only a sequencer exists
NoGame ==
    /\ grid = createEmptyGrid
    /\ clearResult = <<>>
    /\ state = "IDLE"
    /\ stats = ZeroStats
    /\ currentPiece = NoPiece
    /\ holdPiece = Null
    /\ canHold = TRUE
    /\ dropTimer = 0
    /\ lockTimer = 0
    /\ dasTimer = 0
    /\ dasDirection = Null
    /\ lastWasRotation = FALSE
    /\ events = <<>>
    /\ eventHandlers = <<>>
    /\ invoked = <<>>
    /\ calls = 0

\* the variables of the sequencer harness while no harness is attached
NoHarness ==
    /\ twin = Null
    /\ ref = Null
    /\ draws = <<>>
    /\ twinDraws = <<>>
    /\ refDraws = <<>>
    /\ lastPreview = NoPreview
    /\ sincePreview = <<>>
    /\ previews = 0
    /\ usedBeforeReset = FALSE
    /\ heldTime = 0
    /\ pressedKeys = <<>>

BagInit ==
    /\ NoGame
    /\ op = [name |-> "constructor"]
    /\ \E s \in Seeds :
        /\ bag = FreshBag[s]
        /\ twin = FreshBag[s]
        /\ ref = FreshBag[s]
        /\ draws = <<>>
        /\ twinDraws = <<>>
        /\ refDraws = <<>>
        /\ lastPreview = NoPreview
        /\ sincePreview = <<>>
        /\ previews = 0
        /\ usedBeforeReset = FALSE
        /\ heldTime = 0
        /\ pressedKeys = <<>>


BagNext ==
    /\ Len(draws) < MaxDraws
    /\ \E r \in {Bag_next(bag)}, t \in {Bag_next(twin)}, f \in {Bag_next(ref)} :
           /\ bag' = r.bag
           /\ twin' = t.bag
           /\ ref' = f.bag
           /\ draws' = Append(draws, r.type)
           /\ twinDraws' = Append(twinDraws, t.type)
           /\ refDraws' = Append(refDraws, f.type)
           /\ sincePreview' = Append(sincePreview, r.type)
    /\ op' = [name |-> "next"]
    /\ UNCHANGED <<lastPreview, previews, usedBeforeReset, heldTime, pressedKeys,
                   boardVars, gameVars>>

BagPreview ==
    /\ previews < MaxPreviews
    /\ \E n \in 0..MaxPreviewCount :
          \E r \in {Bag_preview(bag, n)}, t \in {Bag_preview(twin, n)} :
              /\ bag' = r.bag
              /\ twin' = t.bag
              /\ lastPreview' = [count |-> n, list |-> r.list]
    /\ sincePreview' = <<>>
    /\ previews' = previews + 1
    /\ op' = [name |-> "preview"]
    /\ UNCHANGED <<ref, draws, twinDraws, refDraws, usedBeforeReset, heldTime, pressedKeys, boardVars,
                   gameVars>>

BagReset ==
    /\ op' = [name |-> "reset"]
    /\ UNCHANGED <<heldTime, pressedKeys, boardVars, gameVars>>
    /\ \E s \in Seeds :
        /\ bag' = Bag_reset(bag, s)
        /\ twin' = FreshBag[s]
        /\ ref' = FreshBag[s]
        /\ draws' = <<>>
        /\ twinDraws' = <<>>
        /\ refDraws' = <<>>
        /\ lastPreview' = NoPreview
        /\ sincePreview' = <<>>
        /\ previews' = 0
        /\ usedBeforeReset' = (Len(draws) > 0 \/ previews > 0)

BagStep == BagNext \/ BagPreview \/ BagReset

SpecBag == BagInit /\ [][BagStep]_vars

-----------------------------------------------------------------------------
(* The game: construction, start, reset, update, handleInput *)

\* what Date.now() returns when a sequencer is constructed or reset without seed
ClockValues == {12345, 54321}

\* the game before a call; the events of the previous call are not kept
G == [grid |-> grid, bag |-> bag, state |-> state, stats |-> stats,
      currentPiece |-> currentPiece, holdPiece |-> holdPiece, canHold |-> canHold,
      dropTimer |-> dropTimer, lockTimer |-> lockTimer, dasTimer |-> dasTimer,
      dasDirection |-> dasDirection, lastWasRotation |-> lastWasRotation,
      events |-> <<>>, eventHandlers |-> eventHandlers, invoked |-> <<>>]

\* the game g as the values of the variables
IsGame(g) ==
    /\ grid = g.grid
    /\ bag = g.bag
    /\ state = g.state
    /\ stats = g.stats
    /\ currentPiece = g.currentPiece
    /\ holdPiece = g.holdPiece
    /\ canHold = g.canHold
    /\ dropTimer = g.dropTimer
    /\ lockTimer = g.lockTimer
    /\ dasTimer = g.dasTimer
    /\ dasDirection = g.dasDirection
    /\ lastWasRotation = g.lastWasRotation
    /\ events = g.events
    /\ eventHandlers = g.eventHandlers
    /\ invoked = g.invoked

\* the game g as the values of the variables after the step
Becomes(g) ==
    /\ grid' = g.grid
    /\ bag' = g.bag
    /\ state' = g.state
    /\ stats' = g.stats
    /\ currentPiece' = g.currentPiece
    /\ holdPiece' = g.holdPiece
    /\ canHold' = g.canHold
    /\ dropTimer' = g.dropTimer
    /\ lockTimer' = g.lockTimer
    /\ dasTimer' = g.dasTimer
    /\ dasDirection' = g.dasDirection
    /\ lastWasRotation' = g.lastWasRotation
    /\ events' = g.events
    /\ eventHandlers' = g.eventHandlers
    /\ invoked' = g.invoked

\* new Game()
GameInit ==
    /\ NoHarness
    /\ clearResult = <<>>
    /\ calls = 0
    /\ op = [name |-> "constructor"]
    /\ \E now \in ClockValues : IsGame(Game_constructor(now))

\* game.start()
Start ==
    /\ \E now \in ClockValues : Becomes(Game_start(G, now))
    /\ op' = [name |-> "start"]
    /\ UNCHANGED <<harnessVars, clearResult, calls>>

\* game.reset()
Reset ==
    /\ \E now \in ClockValues : Becomes(Game_reset(G, now))
    /\ op' = [name |-> "reset"]
    /\ UNCHANGED <<harnessVars, clearResult, calls>>

\* game.update(deltaTime)
Update(deltaTime) ==
    /\ Becomes(Game_update(G, deltaTime))
    /\ op' = [name |-> "update", deltaTime |-> deltaTime]
    /\ UNCHANGED <<harnessVars, clearResult, calls>>

\* game.handleInput(action, pressed)
HandleInput(action, pressed) ==
    /\ Becomes(Game_handleInput(G, action, pressed))
    /\ op' = [name |-> "handleInput", action |-> action, pressed |-> pressed]
    /\ UNCHANGED <<harnessVars, clearResult, calls>>

\* handleLineClears(numLines) called on the game directly, as the tests of
\* the repository call it
HandleLineClearsCall(numLines) ==
    /\ calls < MaxCalls
    /\ calls' = calls + 1
    /\ Becomes(handleLineClears(G, numLines))
    /\ op' = [name |-> "handleLineClears", numLines |-> numLines]
    /\ UNCHANGED <<harnessVars, clearResult>>

\* the game after k direct calls of handleLineClears(4): the first half of
\* the calls, evaluated before the rest of them is applied to its result
RECURSIVE Tetrises(_, _)
Tetrises(g, k) ==
    IF k = 0 THEN g
    ELSE IF k = 1 THEN handleLineClears([g EXCEPT !.events = <<>>], 4)
    ELSE LET half == Tetrises(g, k \div 2)
         IN  IF half.stats.combo > 0 THEN Tetrises(half, k - (k \div 2)) ELSE half

(* A game played by letting pieces fall and holding: the deltaTime of an   *)
(* update exceeds the time a piece needs to fall to rest and lock. The     *)
(* game is new, or it was started and then brought to the target line      *)
(* count by direct handleLineClears(4) calls.                              *)

LifeDeltas == {25000 * TicksPerMs}
LifeActions == {"HOLD", "PAUSE"}

LifeInit ==
    \/ GameInit
    \/ /\ NoHarness
       /\ clearResult = <<>>
       /\ calls = 0
       /\ op = [name |-> "handleLineClears", numLines |-> 4]
       /\ \E now \in ClockValues :
             IsGame(Tetrises(Game_start(Game_constructor(now), now), TargetTetrises))

LifeStep ==
    \/ Start
    \/ Reset
    \/ \E dt \in LifeDeltas : Update(dt)
    \/ \E a \in LifeActions : HandleInput(a, TRUE)

SpecLife == LifeInit /\ [][LifeStep]_vars

(* The statistics under direct handleLineClears calls: the game was       *)
(* started and handleLineClears(4) was called on it up to MaxTetrises      *)
(* times; then up to MaxCalls calls with any number of lines follow.       *)

StatsInit ==
    /\ NoHarness
    /\ clearResult = <<>>
    /\ calls = 0
    /\ \E now \in ClockValues, k \in 0..MaxTetrises :
          /\ IsGame(Tetrises(Game_start(Game_constructor(now), now), k))
          /\ op = IF k = 0 THEN [name |-> "start"]
                  ELSE [name |-> "handleLineClears", numLines |-> 4]

StatsStep ==
    \/ Start
    \/ \E n \in 1..4 : HandleLineClearsCall(n)

SpecStats == StatsInit /\ [][StatsStep]_vars

(* The game under every input.  A game is played along one of the scripts *)
(* below up to any point of the script; from there up to MaxSteps calls    *)
(* follow, each of them any call of the interface with any argument.       *)

Press(action) == [name |-> "handleInput", action |-> action, pressed |-> TRUE]
Release(action) == [name |-> "handleInput", action |-> action, pressed |-> FALSE]
Tick(ms) == [name |-> "update", deltaTime |-> ms * TicksPerMs]

\* the call `o` on the game g, whose events of the previous call are dropped
Apply(g, o) ==
    IF o.name = "update"
    THEN Game_update([g EXCEPT !.events = <<>>, !.invoked = <<>>], o.deltaTime)
    ELSE Game_handleInput([g EXCEPT !.events = <<>>, !.invoked = <<>>], o.action, o.pressed)

GameStates == {"IDLE", "PLAYING", "PAUSED", "GAME_OVER", "COMPLETED"}

RECURSIVE PlayFrom(_, _, _, _)

\* the rest of the script after the calls that left the game n
PlayOn(n, script, i, k) ==
    IF n.state \in GameStates THEN PlayFrom(n, script, i, k) ELSE n

\* the game g after the calls number i to k of the script: the first half of
\* the calls, evaluated before the rest of them is applied to its result
PlayFrom(g, script, i, k) ==
    IF i > k THEN g
    ELSE IF i = k THEN Apply(g, script[i])
    ELSE PlayOn(PlayFrom(g, script, i, (i + k) \div 2), script, (i + k) \div 2 + 1, k)

Repeat(o, n) == [i \in 1..n |-> o]

\* to the left wall upright, down to the floor by soft drops, then at rest
ScriptLeftWall ==
    <<Press("ROTATE_CW")>> \o Repeat(Press("MOVE_LEFT"), 6) \o <<Release("MOVE_LEFT")>>
    \o Repeat(Press("SOFT_DROP"), 21)
    \o Repeat(Tick(250), 4) \o <<Press("MOVE_RIGHT"), Tick(250), Tick(250)>>

\* auto-shift to the right wall, a hard drop, holds, gravity
ScriptRightWall ==
    <<Press("MOVE_RIGHT"), Tick(250), Tick(250), Release("MOVE_RIGHT"),
      Press("ROTATE_CCW"), Press("MOVE_RIGHT"), Press("HARD_DROP"),
      Press("HOLD"), Press("HOLD"), Press("PAUSE"), Tick(800), Press("PAUSE"),
      Tick(800), Tick(800), Press("HARD_DROP"), Press("HOLD")>>

\* hard drops in the spawn columns until no piece fits
ScriptStack == Repeat(Press("HARD_DROP"), 14)

\* a piece dropped beside the right wall, the next one upright between it and the wall
ScriptWell ==
    Repeat(Press("MOVE_RIGHT"), 3) \o <<Press("HARD_DROP"), Press("ROTATE_CW")>>
    \o Repeat(Press("MOVE_RIGHT"), 5) \o Repeat(Press("SOFT_DROP"), 19)
    \o <<Press("ROTATE_CW"), Press("ROTATE_CCW")>>

\* the lock that reaches the line target
ScriptTarget == <<Press("HARD_DROP"), Press("PAUSE")>>

\* with the clock at 54321, whose pieces are O, I, T, J, S, L: O into the left
\* corner, I beside it, T and S on top, J to the right, and L upright over
\* the last column, whose hard drop would fill the bottom row
ScriptLine ==
    Repeat(Press("MOVE_LEFT"), 4) \o <<Press("HARD_DROP")>>
    \o <<Press("MOVE_LEFT"), Press("HARD_DROP"), Press("HARD_DROP")>>
    \o Repeat(Press("MOVE_RIGHT"), 3) \o <<Press("HARD_DROP"), Press("HARD_DROP")>>
    \o <<Press("ROTATE_CCW")>> \o Repeat(Press("MOVE_RIGHT"), 5)

\* with the clock at 54321: O, I, T and J fill the bottom row up to its last
\* two columns, S upright completes it, and L upright at the left wall would
\* complete the row that came down
ScriptCombo ==
    <<Press("MOVE_LEFT"), Press("HARD_DROP")>>
    \o Repeat(Press("MOVE_RIGHT"), 2) \o <<Press("HARD_DROP")>>
    \o Repeat(Press("MOVE_RIGHT"), 2) \o <<Press("HARD_DROP")>>
    \o Repeat(Press("MOVE_LEFT"), 3) \o <<Press("HARD_DROP")>>
    \o <<Press("ROTATE_CW")>> \o Repeat(Press("MOVE_RIGHT"), 4) \o <<Press("HARD_DROP")>>
    \o <<Press("ROTATE_CW")>> \o Repeat(Press("MOVE_LEFT"), 3)

\* with the clock at 54321: O down at the left wall and turned at rest, I on
\* the floor, T upright down the last column onto the end of the I, then
\* turned off the wall and back into the last column by wall kicks
ScriptSpin ==
    Repeat(Press("MOVE_LEFT"), 4) \o Repeat(Press("SOFT_DROP"), 19)
    \o <<Press("ROTATE_CW"), Press("HARD_DROP")>>
    \o Repeat(Press("MOVE_RIGHT"), 2) \o <<Press("HARD_DROP")>>
    \o <<Press("ROTATE_CCW")>> \o Repeat(Press("MOVE_RIGHT"), 5)
    \o Repeat(Press("SOFT_DROP"), 18)
    \o <<Press("ROTATE_CW"), Press("ROTATE_CCW")>>

\* a piece dropped where it appears, the next one down onto it by soft
\* drops, at rest there until gravity finds it blocked, then off it to the left
ScriptLedge ==
    <<Press("HARD_DROP")>> \o Repeat(Press("SOFT_DROP"), 18)
    \o Repeat(Tick(250), 4) \o Repeat(Press("MOVE_LEFT"), 3)

\* with the clock at 54321: O, I, T, J, S and L fill the two bottom rows but
\* for a step in the middle, which Z upright would fill
ScriptDouble ==
    Repeat(Press("MOVE_LEFT"), 3) \o <<Press("HARD_DROP")>>
    \o Repeat(Press("MOVE_RIGHT"), 2) \o <<Press("HARD_DROP")>>
    \o <<Press("ROTATE_CCW")>> \o Repeat(Press("MOVE_RIGHT"), 5) \o <<Press("HARD_DROP")>>
    \o <<Press("ROTATE_CW")>> \o Repeat(Press("MOVE_LEFT"), 4) \o <<Press("HARD_DROP")>>
    \o Repeat(Press("MOVE_RIGHT"), 3) \o <<Press("HARD_DROP")>>
    \o <<Press("ROTATE_CCW"), Press("MOVE_LEFT"), Press("HARD_DROP")>>
    \o <<Press("ROTATE_CW")>>

\* with the clock at 12345: the first T goes into the hold; the pieces that
\* follow are stacked left and right of the columns a piece appears in, an I
\* is laid across the top of the left stack, and the T that follows is turned
\* where it appears and swapped for the held T
ScriptSwap ==
    <<Press("ROTATE_CW")>> \o Repeat(Press("MOVE_LEFT"), 4) \o <<Press("HARD_DROP")>>
    \o <<Press("ROTATE_CW")>> \o Repeat(Press("MOVE_LEFT"), 4) \o <<Press("HARD_DROP")>>
    \o <<Press("HOLD")>>
    \o Repeat(Press("MOVE_LEFT"), 3) \o <<Press("HARD_DROP")>>
    \o <<Press("ROTATE_CW")>> \o Repeat(Press("MOVE_LEFT"), 2) \o <<Press("HARD_DROP")>>
    \o <<Press("ROTATE_CCW")>> \o Repeat(Press("MOVE_LEFT"), 2) \o <<Press("HARD_DROP")>>
    \o <<Press("MOVE_LEFT"), Press("HARD_DROP")>>
    \o Repeat(Press("MOVE_LEFT"), 4) \o <<Press("HARD_DROP")>>
    \o <<Press("ROTATE_CW")>> \o Repeat(Press("MOVE_LEFT"), 4) \o <<Press("HARD_DROP")>>
    \o <<Press("ROTATE_CW"), Press("HARD_DROP")>>
    \o Repeat(Press("ROTATE_CW"), 2) \o <<Press("MOVE_LEFT"), Press("HARD_DROP")>>
    \o Repeat(Press("MOVE_LEFT"), 2) \o <<Press("HARD_DROP")>>
    \o <<Press("ROTATE_CW")>> \o Repeat(Press("MOVE_RIGHT"), 3) \o <<Press("HARD_DROP")>>
    \o <<Press("ROTATE_CW")>> \o Repeat(Press("MOVE_RIGHT"), 2) \o <<Press("HARD_DROP")>>
    \o <<Press("ROTATE_CW")>> \o Repeat(Press("MOVE_RIGHT"), 3) \o <<Press("HARD_DROP")>>
    \o <<Press("ROTATE_CW")>> \o Repeat(Press("MOVE_RIGHT"), 2) \o <<Press("HARD_DROP")>>
    \o <<Press("ROTATE_CW")>> \o Repeat(Press("MOVE_RIGHT"), 2) \o <<Press("HARD_DROP")>>
    \o <<Press("ROTATE_CW")>> \o Repeat(Press("MOVE_RIGHT"), 2) \o <<Press("HARD_DROP")>>
    \o Repeat(Press("MOVE_RIGHT"), 2) \o <<Press("HARD_DROP")>>
    \o <<Press("ROTATE_CW"), Press("MOVE_RIGHT"), Press("HARD_DROP")>>
    \o <<Press("ROTATE_CCW")>> \o Repeat(Press("MOVE_RIGHT"), 3) \o <<Press("HARD_DROP")>>
    \o Repeat(Press("MOVE_LEFT"), 3) \o <<Press("HARD_DROP")>>
    \o Repeat(Press("MOVE_RIGHT"), 2) \o <<Press("HARD_DROP")>>
    \o <<Press("ROTATE_CW"), Press("HOLD")>>

Scripts ==
    {[lines |-> 0, calls |-> ScriptLeftWall],
     [lines |-> 0, calls |-> ScriptSwap],
     [lines |-> 0, calls |-> ScriptDouble],
     [lines |-> 0, calls |-> ScriptLedge],
     [lines |-> 0, calls |-> ScriptSpin],
     [lines |-> 0, calls |-> ScriptCombo],
     [lines |-> 0, calls |-> ScriptLine],
     [lines |-> 0, calls |-> ScriptRightWall],
     [lines |-> 0, calls |-> ScriptStack],
     [lines |-> 0, calls |-> ScriptWell],
     [lines |-> TargetLines, calls |-> ScriptTarget]}

\* the game a script starts from: started, and for a script at the line
\* target brought there by direct handleLineClears(4) calls
Started(now, lines) ==
    Tetrises(Game_start(Game_constructor(now), now), (lines + 3) \div 4)

Init ==
    \/ GameInit
    \/ /\ NoHarness
       /\ clearResult = <<>>
       /\ calls = 0
       /\ \E now \in ClockValues, s \in Scripts : \E k \in 0..Len(s.calls) :
             /\ IsGame(PlayFrom(Started(now, s.lines), s.calls, 1, k))
             /\ op = IF k > 0 THEN s.calls[k]
                     ELSE IF s.lines > 0 THEN [name |-> "handleLineClears", numLines |-> 4]
                     ELSE [name |-> "start"]

\* the deltaTime of a free update: a frame of 1000/60 ms, 200 ms, 250 ms, the
\* lock delay, 510 ms (no whole number of frames), and the drop interval of
\* level 0
Deltas == {(1000 * TicksPerMs) \div 60, 200 * TicksPerMs, 250 * TicksPerMs,
           LOCK_DELAY, 510 * TicksPerMs, 800 * TicksPerMs}

\* a free step: the game becomes g by the call o
Step(g, o) ==
    /\ calls < MaxSteps
    /\ calls' = calls + 1
    /\ Becomes(g)
    /\ op' = o
    /\ UNCHANGED <<harnessVars, clearResult>>

StepStart == \E now \in ClockValues : Step(Game_start(G, now), [name |-> "start"])

StepReset == \E now \in ClockValues : Step(Game_reset(G, now), [name |-> "reset"])

StepUpdate ==
    \E dt \in Deltas :
        Step(Game_update(G, dt), [name |-> "update", deltaTime |-> dt])

StepInput ==
    \E action \in InputAction, pressed \in BOOLEAN :
        Step(Game_handleInput(G, action, pressed),
             [name |-> "handleInput", action |-> action, pressed |-> pressed])

Next == StepStart \/ StepReset \/ StepUpdate \/ StepInput

Spec == Init /\ [][Next]_vars

(* The auto-shift on its own: a game is started and a direction pressed;   *)
(* updates follow whose deltaTimes add up to MaxHeldMs ms at most, less    *)
(* than the time the piece needs to come to rest.                          *)

\* the deltaTimes of the updates: 10 ms, a frame, the auto-shift period and
\* delay, 200 ms, 250 ms, and the whole time at once
DasDeltas == {10 * TicksPerMs, (1000 * TicksPerMs) \div 60, DAS_PERIOD, DAS_DELAY,
              200 * TicksPerMs, 250 * TicksPerMs, MaxHeldMs * TicksPerMs}

\* game.start(); game.handleInput(MOVE_LEFT or MOVE_RIGHT, true)
DasInit ==
    /\ NoHarness
    /\ clearResult = <<>>
    /\ calls = 0
    /\ \E now \in ClockValues, action \in {"MOVE_LEFT", "MOVE_RIGHT"} :
          /\ IsGame(Apply(Game_start(Game_constructor(now), now), Press(action)))
          /\ op = Press(action)

\* game.update(deltaTime) while the direction is held
DasUpdate ==
    /\ \E dt \in DasDeltas :
          /\ heldTime + dt <= MaxHeldMs * TicksPerMs
          /\ heldTime' = heldTime + dt
          /\ Becomes(Game_update(G, dt))
          /\ op' = [name |-> "update", deltaTime |-> dt]
    /\ UNCHANGED <<twin, ref, draws, twinDraws, refDraws, lastPreview, sincePreview,
                   previews, usedBeforeReset, pressedKeys, clearResult, calls>>

SpecDas == DasInit /\ [][DasUpdate]_vars

(* The keyboard of the application, src/src/main.ts: the keys that are down *)
(* are kept in pressedKeys, a key that goes down or up is handed to the    *)
(* game as a press or a release of its action, and a window that loses the *)
(* focus releases every key that is down.  Up to MaxFrames updates of the  *)
(* game loop come between the key events.                                  *)

\* KEY_MAPPING, for the keys of the two directions and of the pause
KEY_MAPPING ==
    [key \in {"ArrowLeft", "ArrowRight", "p"} |->
        CASE key = "ArrowLeft" -> "MOVE_LEFT"
          [] key = "ArrowRight" -> "MOVE_RIGHT"
          [] key = "p" -> "PAUSE"]

\* the deltaTime of an update of the game loop: a frame or 250 ms
KeyDeltas == {(1000 * TicksPerMs) \div 60, 250 * TicksPerMs}

\* the sequence q without its elements equal to e
Without(q, e) == SelectSeq(q, LAMBDA k : k # e)

\* the forEach of the blur handler: the keys from the i-th on are released
RECURSIVE ReleaseAll(_, _, _)
ReleaseAll(g, keys, i) ==
    IF i > Len(keys) THEN g
    ELSE ReleaseAll(Game_handleInput(g, KEY_MAPPING[keys[i]], FALSE), keys, i + 1)

\* new TetrisApp(): the game is started and no key is down
KeysInit ==
    /\ twin = Null
    /\ ref = Null
    /\ draws = <<>>
    /\ twinDraws = <<>>
    /\ refDraws = <<>>
    /\ lastPreview = NoPreview
    /\ sincePreview = <<>>
    /\ previews = 0
    /\ usedBeforeReset = FALSE
    /\ heldTime = 0
    /\ pressedKeys = <<>>
    /\ clearResult = <<>>
    /\ calls = 0
    /\ op = [name |-> "start"]
    /\ \E now \in ClockValues : IsGame(Game_start(Game_constructor(now), now))

\* the keydown listener, for a key that is not down
KeyDown(key) ==
    /\ \A i \in 1..Len(pressedKeys) : pressedKeys[i] # key
    /\ pressedKeys' = Append(pressedKeys, key)
    /\ Becomes(Game_handleInput(G, KEY_MAPPING[key], TRUE))
    /\ op' = Press(KEY_MAPPING[key])
    /\ UNCHANGED <<twin, ref, draws, twinDraws, refDraws, lastPreview, sincePreview,
                   previews, usedBeforeReset, heldTime, clearResult, calls>>

\* the keyup listener, for a key that is down
KeyUp(key) ==
    /\ \E i \in 1..Len(pressedKeys) : pressedKeys[i] = key
    /\ pressedKeys' = Without(pressedKeys, key)
    /\ Becomes(Game_handleInput(G, KEY_MAPPING[key], FALSE))
    /\ op' = Release(KEY_MAPPING[key])
    /\ UNCHANGED <<twin, ref, draws, twinDraws, refDraws, lastPreview, sincePreview,
                   previews, usedBeforeReset, heldTime, clearResult, calls>>

\* the blur listener, while keys are down
Blur ==
    /\ pressedKeys # <<>>
    /\ pressedKeys' = <<>>
    /\ Becomes(ReleaseAll(G, pressedKeys, 1))
    /\ op' = [name |-> "blur"]
    /\ UNCHANGED <<twin, ref, draws, twinDraws, refDraws, lastPreview, sincePreview,
                   previews, usedBeforeReset, heldTime, clearResult, calls>>

\* game.update(deltaTime) from the game loop
KeysUpdate ==
    /\ calls < MaxFrames
    /\ calls' = calls + 1
    /\ \E dt \in KeyDeltas :
          /\ Becomes(Game_update(G, dt))
          /\ op' = [name |-> "update", deltaTime |-> dt]
    /\ UNCHANGED <<harnessVars, clearResult>>

KeysStep ==
    \/ \E key \in DOMAIN KEY_MAPPING : KeyDown(key)
    \/ \E key \in DOMAIN KEY_MAPPING : KeyUp(key)
    \/ Blur
    \/ KeysUpdate

SpecKeys == KeysInit /\ [][KeysStep]_vars

(* The game left alone: a game is played to the end of one of the scripts  *)
(* below, which leave it Playing, and from there on the game loop calls     *)
(* update and no input is delivered.  The loop of the renderer calls update *)
(* in every animation frame, so while the game is Playing another frame     *)
(* always comes.                                                            *)

\* the deltaTime of an update of the loop: 250 ms, less than the lock delay
\* and than a drop interval of level 0, and 1 s, more than either
IdleDeltas == {250 * TicksPerMs, 1000 * TicksPerMs}

\* the plays before the game is left alone: none, a direction held, a piece
\* at rest moved off a ledge, a stack up to the rows where pieces appear, and
\* none on a game at the line target
IdleScripts ==
    {[lines |-> 0, calls |-> <<>>],
     [lines |-> 0, calls |-> <<Press("MOVE_LEFT")>>],
     [lines |-> 0, calls |-> <<Press("MOVE_RIGHT")>>],
     [lines |-> 0, calls |-> ScriptLedge],
     [lines |-> 0, calls |-> ScriptSwap],
     [lines |-> TargetLines, calls |-> <<>>]}

IdleInit ==
    /\ NoHarness
    /\ clearResult = <<>>
    /\ calls = 0
    /\ \E now \in ClockValues, s \in IdleScripts :
          /\ IsGame(PlayFrom(Started(now, s.lines), s.calls, 1, Len(s.calls)))
          /\ op = IF Len(s.calls) > 0 THEN s.calls[Len(s.calls)]
                  ELSE IF s.lines > 0 THEN [name |-> "handleLineClears", numLines |-> 4]
                  ELSE [name |-> "start"]

\* a frame of the loop: game.update(deltaTime); `calls` counts the frames
\* modulo 2
IdleUpdate(deltaTime) ==
    /\ Becomes(Game_update(G, deltaTime))
    /\ op' = [name |-> "update", deltaTime |-> deltaTime]
    /\ calls' = 1 - calls
    /\ UNCHANGED <<harnessVars, clearResult>>

IdleStep == \E dt \in IdleDeltas : IdleUpdate(dt)

\* the loop goes on while the game is Playing: another frame is counted
LoopRuns == state = "PLAYING" /\ calls' = 1 - calls

SpecIdle == IdleInit /\ [][IdleStep]_vars /\ WF_calls(LoopRuns)

(* The subscribers of the game: up to MaxHandlers registrations of two     *)
(* callbacks for the events of a lock and of the end of the game, removals, *)
(* and a game of hard drops that raises these events.                      *)

\* the callbacks, by identity
Callbacks == {"h1", "h2"}

\* the event types the callbacks are registered for
SubscribedTypes == {"piece_lock", "game_over"}

\* the number of registrations made
Registered ==
    Len(HandlersOf(eventHandlers, "piece_lock")) + Len(HandlersOf(eventHandlers, "game_over"))

\* game.on(event, handler)
On(event, handler) ==
    /\ Registered < MaxHandlers
    /\ Becomes(Game_on(G, event, handler))
    /\ op' = [name |-> "on", event |-> event, handler |-> handler]
    /\ UNCHANGED <<harnessVars, clearResult, calls>>

\* game.off(event, handler)
Off(event, handler) ==
    /\ Becomes(Game_off(G, event, handler))
    /\ op' = [name |-> "off", event |-> event, handler |-> handler]
    /\ UNCHANGED <<harnessVars, clearResult, calls>>

EventsStep ==
    \/ \E event \in SubscribedTypes, handler \in Callbacks : On(event, handler)
    \/ \E event \in SubscribedTypes, handler \in Callbacks : Off(event, handler)
    \/ Start
    \/ HandleInput("HARD_DROP", TRUE)

SpecEvents == GameInit /\ [][EventsStep]_vars

(* The consumer of the accessors: on a game played along one of the       *)
(* scripts it calls an accessor and then writes to the object it got; up   *)
(* to MaxSteps such writes are made.                                       *)

\* the accessors that return objects
Accessors == {"getStats", "getGrid", "getCurrentPiece", "getNextPieces",
              "getGhostPosition"}

\* the count the consumer passes to getNextPieces
PreviewCount == 3

\* the accessor `a` called on the game g
Access(g, a) ==
    CASE a = "getStats" -> Game_getStats(g)
      [] a = "getGrid" -> Board_getGrid(g)
      [] a = "getCurrentPiece" -> Game_getCurrentPiece(g)
      [] a = "getNextPieces" -> Game_getNextPieces(g, PreviewCount)
      [] a = "getGhostPosition" -> Game_getGhostPosition(g)

\* the object `value` that accessor `a` returned, after the write of the
\* consumer: stats.score++, grid[TOTAL_HEIGHT - 1][0] = 'I' as in the
\* repository's line-clear test, piece.position.x++, list[0] = another
\* type, ghost.y = 0
Write(a, value) ==
    CASE a = "getStats" -> [value EXCEPT !.score = @ + 1]
      [] a = "getGrid" -> [value EXCEPT ![TOTAL_HEIGHT][1] = "I"]
      [] a = "getCurrentPiece" -> [value EXCEPT !.position.x = @ + 1]
      [] a = "getNextPieces" -> [value EXCEPT ![1] = IF @ = "I" THEN "O" ELSE "I"]
      [] a = "getGhostPosition" -> [value EXCEPT !.y = 0]

\* the game after the write that made the object returned into w: the field
\* the object is, if it is one, holds w
Written(g, field, w) == IF field = Null THEN g ELSE [g EXCEPT ![field] = w]

\* a call of an accessor
Query ==
    /\ calls < MaxSteps
    /\ op.name \notin Accessors
    /\ \E a \in Accessors : \E r \in {Access(G, a)} :
          /\ Becomes(r.g)
          /\ op' = [name |-> a, value |-> r.value, ref |-> r.ref, object |-> r.object]
    /\ UNCHANGED <<harnessVars, clearResult, calls>>

\* the write to the object the accessor called last returned
Mutate ==
    /\ op.name \in Accessors
    /\ op.object
    /\ calls' = calls + 1
    /\ \E w \in {Write(op.name, op.value)} :
          /\ Becomes(Written(G, op.ref, w))
          /\ op' = [name |-> "write", of |-> op.name, value |-> w]
    /\ UNCHANGED <<harnessVars, clearResult>>

AccessStep == Query \/ Mutate

SpecAccess == Init /\ [][AccessStep]_vars

(* The game and the queries of its board: on a game played along one of   *)
(* the scripts, any call of the interface or any query of the board or of  *)
(* the sequencer is made, the queries about the active piece and the       *)
(* positions around it.  A query is the first call after the script.        *)

\* the count the renderer passes to getNextPieces
NextCount == 5

\* board.isValidPosition(type, position, rotation) for the active piece one
\* cell around where it is
QueryValid ==
    /\ calls = 0
    /\ currentPiece # NoPiece
    /\ \E dx \in {-1, 0, 1}, dy \in {0, 1} :
          \E position \in {[x |-> currentPiece.position.x + dx,
                            y |-> currentPiece.position.y + dy]} :
             Step(G, [name |-> "isValidPosition", type |-> currentPiece.type,
                      position |-> position, rotation |-> currentPiece.rotation,
                      result |-> isValidPosition(grid, currentPiece.type, position,
                                                 currentPiece.rotation)])

\* game.getGhostPosition()
QueryGhost ==
    /\ calls = 0
    /\ \E r \in {Game_getGhostPosition(G)} :
          Step(r.g, [name |-> "getGhostPosition", result |-> r.value])

\* board.getBoardStats()
QueryStats ==
    /\ calls = 0
    /\ Step(G, [name |-> "getBoardStats", result |-> getBoardStats(grid)])

\* game.getNextPieces(5), as the renderer calls it
QueryNext ==
    /\ calls = 0
    /\ \E r \in {Game_getNextPieces(G, NextCount)} :
          Step(r.g, [name |-> "getNextPieces", result |-> r.value])

GridStep ==
    \/ StepStart \/ StepReset \/ StepUpdate \/ StepInput
    \/ QueryValid \/ QueryGhost \/ QueryStats \/ QueryNext

SpecGrid == Init /\ [][GridStep]_vars

-----------------------------------------------------------------------------
(* The board on its own: pieces locked into its lowest rows, and clearLines *)

\* the rows the harness locks pieces into
LowRows == (TOTAL_HEIGHT - MaxBoardRows)..(TOTAL_HEIGHT - 1)

\* the placements of the harness: I pieces lying in the left and the middle
\* columns, O pieces in the two right columns
Placements ==
    {[type |-> "I", position |-> [x |-> x, y |-> row - 1], rotation |-> 0] :
        x \in {0, 4}, row \in LowRows}
    \cup
    {[type |-> "O", position |-> [x |-> 7, y |-> row], rotation |-> 0] :
        row \in {r \in LowRows : r + 1 \in LowRows}}

\* new Board()
BoardInit ==
    /\ NoHarness
    /\ NoGame
    /\ bag = Null
    /\ op = [name |-> "constructor"]

\* board.lockPiece(type, position, rotation) at a valid position
BoardLock ==
    /\ \E p \in Placements :
          /\ isValidPosition(grid, p.type, p.position, p.rotation)
          /\ grid' = lockPiece(grid, p.type, p.position, p.rotation)
          /\ op' = [name |-> "lockPiece"]
    /\ clearResult' = <<>>
    /\ UNCHANGED <<harnessVars, bag, gameVars>>

\* board.clearLines()
BoardClear ==
    /\ LET c == clearLines(grid)
       IN  /\ grid' = c.grid
           /\ clearResult' = c.lines
    /\ op' = [name |-> "clearLines"]
    /\ UNCHANGED <<harnessVars, bag, gameVars>>

BoardStep == BoardLock \/ BoardClear

SpecBoard == BoardInit /\ [][BoardStep]_vars

-----------------------------------------------------------------------------
(* The queries of the board: isValidPosition and getGhostPosition, asked   *)
(* for every piece at every position up to ProbeMargin cells outside the   *)
(* grid, on the boards that locking the pieces of ProbePlacements gives.   *)
(* A query leaves the board as it is, so each query is asked on the board  *)
(* as construction or a lock left it, not after another query.             *)

ProbeXs == (-ProbeMargin)..(BOARD_WIDTH - 1 + ProbeMargin)
ProbeYs == (-(ProbeMargin + 2))..(TOTAL_HEIGHT - 1 + ProbeMargin)
Rotations == 0..3

\* the O piece of the repository's collision test, and an I piece lying in
\* the middle of the left columns
ProbePlacements ==
    {[type |-> "O", position |-> [x |-> 4, y |-> 18], rotation |-> 0],
     [type |-> "I", position |-> [x |-> 0, y |-> 9], rotation |-> 0]}

\* board.lockPiece(type, position, rotation) at a valid position
ProbeLock ==
    /\ \E p \in ProbePlacements :
          /\ isValidPosition(grid, p.type, p.position, p.rotation)
          /\ grid' = lockPiece(grid, p.type, p.position, p.rotation)
    /\ op' = [name |-> "lockPiece"]
    /\ UNCHANGED <<harnessVars, bag, clearResult, gameVars>>

\* board.isValidPosition(type, position, rotation)
ProbeValid ==
    /\ op.name \in {"constructor", "lockPiece"}
    /\ \E type \in Types, x \in ProbeXs, y \in ProbeYs, rotation \in Rotations :
          op' = [name |-> "isValidPosition", type |-> type,
                 position |-> [x |-> x, y |-> y], rotation |-> rotation,
                 result |-> isValidPosition(grid, type, [x |-> x, y |-> y], rotation)]
    /\ UNCHANGED <<harnessVars, bag, boardVars, gameVars>>

\* board.getGhostPosition(type, position, rotation)
ProbeGhost ==
    /\ op.name \in {"constructor", "lockPiece"}
    /\ \E type \in Types, x \in ProbeXs, y \in ProbeYs, rotation \in Rotations :
          op' = [name |-> "getGhostPosition", type |-> type,
                 position |-> [x |-> x, y |-> y], rotation |-> rotation,
                 result |-> getGhostPosition(grid, type, [x |-> x, y |-> y], rotation)]
    /\ UNCHANGED <<harnessVars, bag, boardVars, gameVars>>

ProbeStep == ProbeLock \/ ProbeValid \/ ProbeGhost

SpecProbe == BoardInit /\ [][ProbeStep]_vars

-----------------------------------------------------------------------------
(* Properties of the sequencer *)

Min(a, b) == IF a <= b THEN a ELSE b

\* C1: for any seed, the draws numbered 7k+1 .. 7k+7, counted from
\* construction or reset, contain each of the 7 piece types exactly once.
C1_AlignedBagsComplete ==
    \A k \in 0..(MaxDraws \div 7) :
        7 * k + 7 <= Len(draws) =>
            {draws[7 * k + i] : i \in 1..7} = Types

\* C2: preview(n) does not change what later next() calls return: the
\* sequencer returns the draws of a sequencer with the same seed on which
\* preview is never called.
C2_PreviewKeepsDraws == draws = refDraws

\* C3: preview(n) returns exactly n entries and its i-th entry is what the
\* i-th next() call after it returns.
C3_PreviewPredictsDraws ==
    /\ Len(lastPreview.list) = lastPreview.count
    /\ \A i \in 1..Min(lastPreview.count, Len(sincePreview)) :
          lastPreview.list[i] = sincePreview[i]

-----------------------------------------------------------------------------
(* Properties of the game *)

EventTypes(evs) == {evs[i].type : i \in 1..Len(evs)}

HoldPress == [name |-> "handleInput", action |-> "HOLD", pressed |-> TRUE]
PausePress == [name |-> "handleInput", action |-> "PAUSE", pressed |-> TRUE]

\* C5: while the game is Playing, every filled cell of the active piece lies
\* in a column in [0,10), in a row below 22, and not on an occupied cell.
C5_ActivePieceFits ==
    (state = "PLAYING" /\ currentPiece # NoPiece) =>
        \A c \in ShapeCells(currentPiece.type, currentPiece.rotation) :
            LET x == currentPiece.position.x + c[1]
                y == currentPiece.position.y + c[2]
            IN  /\ x >= 0 /\ x < 10
                /\ y < 22
                /\ (y >= 0 => Cell(grid, y, x) = Null)

\* C6: the state changes only from Idle to Playing on start, between Playing
\* and Paused on a pause press, from Playing to GameOver with an invalid
\* spawn, from Playing to Completed with lines >= 999 at a lock, and to
\* Idle by reset and Playing by start; in GameOver and in Completed no
\* update and no handleInput call changes it.
C6_StateTransitions ==
    [][/\ state' # state =>
            \/ op'.name = "reset" /\ state' = "IDLE"
            \/ op'.name = "start" /\ state' = "PLAYING"
            \/ state = "PLAYING" /\ state' = "PAUSED" /\ op' = PausePress
            \/ state = "PAUSED" /\ state' = "PLAYING" /\ op' = PausePress
            \/ /\ state = "PLAYING" /\ state' = "GAME_OVER"
               /\ op'.name \in {"update", "handleInput"}
               /\ currentPiece'.position = getSpawnPosition(currentPiece'.type)
               /\ ~isValidPosition(grid', currentPiece'.type, currentPiece'.position,
                                   currentPiece'.rotation)
            \/ /\ state = "PLAYING" /\ state' = "COMPLETED"
               /\ op'.name \in {"update", "handleInput"}
               /\ "piece_lock" \in EventTypes(events')
               /\ stats'.lines >= 999
       /\ (state \in {"GAME_OVER", "COMPLETED"} /\ op'.name \in {"update", "handleInput"})
            => state' = state
      ]_vars

\* C6 witness: a pause press handled in the Completed state.
C6_Witness == state = "COMPLETED" /\ op = PausePress

\* C7: after every line-clearing call level = min(floor(lines / 10), 29),
\* for line counts from 0 to beyond 300.
C7_LevelFromLines ==
    stats.level = Min(stats.lines \div 10, 29)

\* C7 witness: a line-clearing call has left more than 300 lines.
C7_Witness ==
    /\ op.name = "handleLineClears" /\ calls > 0
    /\ stats.lines > 300 /\ stats.level = 29

\* C8: a call that clears n lines at level L (taken before the call) adds
\* base(n) * (L + 1) + 50 * combo * (L + 1) to the score, with combo the
\* count after the call, base 100/300/500/800 for n = 1/2/3/4 and the
\* 4-line base times 1.5 when backToBack was already set; a 4-line clear
\* sets backToBack and a smaller clear resets it.
C8_LineClearScore ==
    [][op'.name = "handleLineClears" =>
          LET n == op'.numLines
              L == stats.level
              combo == stats.combo + 1
              base == CASE n = 1 -> 100
                        [] n = 2 -> 300
                        [] n = 3 -> 500
                        [] n = 4 -> IF stats.backToBack THEN 1200 ELSE 800
          IN  /\ stats'.combo = combo
              /\ stats'.score = stats.score + base * (L + 1) + 50 * combo * (L + 1)
              /\ stats'.backToBack = (n = 4)
      ]_vars

\* C8 witness: two 4-line clears in a row on a newly started game, worth
\* 800 + 50 and then 1200 + 100.
C8_Witness ==
    /\ op = [name |-> "handleLineClears", numLines |-> 4]
    /\ calls = 2
    /\ stats = [score |-> 2150, level |-> 0, lines |-> 8, combo |-> 2,
                backToBack |-> TRUE]

\* C9: a hold press that takes effect disables hold; while hold is disabled
\* a hold press changes neither the held type nor the active piece; hold is
\* enabled again only by a lock followed by a spawn (or by reset or start).
C9_HoldOncePerLock ==
    [][/\ (op' = HoldPress /\ (holdPiece' # holdPiece \/ currentPiece' # currentPiece))
            => (canHold /\ ~canHold')
       /\ (op' = HoldPress /\ ~canHold)
            => (holdPiece' = holdPiece /\ currentPiece' = currentPiece /\ ~canHold')
       /\ (~canHold /\ canHold')
            => \/ op'.name \in {"reset", "start"}
               \/ /\ "piece_lock" \in EventTypes(events')
                  /\ currentPiece'.position = getSpawnPosition(currentPiece'.type)
       /\ ("piece_lock" \in EventTypes(events') /\ state' # "COMPLETED") => canHold'
      ]_vars

\* C9 witness: hold is disabled by a hold press made after a piece has locked.
C9_Witness ==
    /\ state = "PLAYING" /\ op = HoldPress /\ ~canHold
    /\ holdPiece # Null /\ grid # createEmptyGrid

-----------------------------------------------------------------------------
(* Properties of the board *)

\* the indices of the full rows of grid g
FullRows(g) == {r \in 0..(TOTAL_HEIGHT - 1) : isLineFull(g, r)}

\* the elements of a set of numbers in ascending order
Ascending(S) ==
    CHOOSE q \in [1..Cardinality(S) -> S] :
        \A i, j \in 1..Cardinality(S) : i < j => q[i] < q[j]

\* C10: clearLines() returns the indices that the cleared rows had in the
\* grid before the call, in ascending order.
C10_ClearedOriginalIndices ==
    [][op'.name = "clearLines" => clearResult' = Ascending(FullRows(grid))]_vars

\* a row of the grid without an empty cell
RowFull(cells) == \A x \in 1..Len(cells) : cells[x] # Null

RowNotFull(cells) == ~RowFull(cells)

\* the rows of grid g that are not full, top row first
KeptRows(g) == SelectSeq(g, RowNotFull)

\* C11: clearLines() leaves a grid of 22 rows of 10 cells: as many empty rows
\* as there were full rows, then the rows of the previous grid that were not
\* full, in their order and with their contents. When exactly one row r was
\* full, the top row is empty, every row above r has moved down by one and
\* the rows below r are as they were.
C11_ClearKeepsOtherRows ==
    [][op'.name = "clearLines" =>
          LET kept == KeptRows(grid)
              k == TOTAL_HEIGHT - Len(kept)
          IN  /\ Len(grid') = TOTAL_HEIGHT
              /\ \A y \in 1..TOTAL_HEIGHT : Len(grid'[y]) = BOARD_WIDTH
              /\ \A y \in 1..TOTAL_HEIGHT :
                    grid'[y] = IF y <= k THEN EmptyRow ELSE kept[y - k]
              /\ \A r \in 1..TOTAL_HEIGHT :
                    (k = 1 /\ RowFull(grid[r])) =>
                        /\ grid'[1] = EmptyRow
                        /\ \A y \in 1..(r - 1) : grid'[y + 1] = grid[y]
                        /\ \A y \in (r + 1)..TOTAL_HEIGHT : grid'[y] = grid[y]
    ]_vars

\* C11 witness: clearLines() has removed rows and rows with cells remain.
C11_Witness ==
    /\ op.name = "clearLines"
    /\ Len(clearResult) > 0
    /\ grid # createEmptyGrid

\* C12: clearLines() on a grid without a full row returns the empty list and
\* leaves the grid as it is; so does a clearLines() that follows a clearLines().
C12_ClearIdempotent ==
    [][(op'.name = "clearLines" /\ (KeptRows(grid) = grid \/ op.name = "clearLines"))
          => (clearResult' = <<>> /\ grid' = grid)]_vars

\* C12 witness: clearLines() has returned the empty list on a grid with cells.
C12_Witness ==
    /\ op.name = "clearLines"
    /\ clearResult = <<>>
    /\ grid # createEmptyGrid

\* the filled cells of the shape matrix of a piece, as <<column, row>> offsets
Filled(type, rotation) ==
    LET shape == TETROMINO_SHAPES[type][rotation + 1]
    IN  {c \in (0..3) \X (0..3) :
            /\ c[2] + 1 <= Len(shape)
            /\ c[1] + 1 <= Len(shape[c[2] + 1])
            /\ shape[c[2] + 1][c[1] + 1] # 0}

\* every filled cell of the piece at (x, y) is in a column of the grid, above
\* the bottom bound and, when its row is a row of the grid, on an empty cell
Fits(g, type, x, y, rotation) ==
    \A c \in Filled(type, rotation) :
        /\ x + c[1] >= 0
        /\ x + c[1] < BOARD_WIDTH
        /\ y + c[2] < TOTAL_HEIGHT
        /\ (y + c[2] >= 0) => g[y + c[2] + 1][x + c[1] + 1] = Null

LowestFilledRow(type, rotation) ==
    CHOOSE r \in 0..3 :
        /\ \E c \in Filled(type, rotation) : c[2] = r
        /\ \A c \in Filled(type, rotation) : c[2] <= r

\* C14: for a piece at a valid position getGhostPosition returns the same x
\* and a row not above the start that is valid, whose next row is invalid,
\* with every row from the start to it valid; on an empty board it is the
\* row that puts the lowest filled row of the shape on the bottom row.
C14_GhostIsRestingRow ==
    (/\ op.name = "getGhostPosition"
     /\ Fits(grid, op.type, op.position.x, op.position.y, op.rotation)) =>
        /\ op.result.x = op.position.x
        /\ op.result.y >= op.position.y
        /\ \A y \in op.position.y..op.result.y :
              Fits(grid, op.type, op.position.x, y, op.rotation)
        /\ ~Fits(grid, op.type, op.position.x, op.result.y + 1, op.rotation)
        /\ (grid = createEmptyGrid) =>
              op.result.y = (TOTAL_HEIGHT - 1) - LowestFilledRow(op.type, op.rotation)

\* C14 witness: the ghost of a piece came to rest below its start and above
\* the floor, on a locked piece.
C14_Witness ==
    /\ op.name = "getGhostPosition"
    /\ Fits(grid, op.type, op.position.x, op.position.y, op.rotation)
    /\ op.result.y > op.position.y
    /\ op.result.y + LowestFilledRow(op.type, op.rotation) < TOTAL_HEIGHT - 1

-----------------------------------------------------------------------------
(* Properties of the game under every input *)

\* the offsets a rotation tries: none first, then the kicks in table order
RotationOffsets(type, from, to) ==
    <<[x |-> 0, y |-> 0]>> \o getWallKickOffsets(type, from, to)

\* C15: a rotation press on a piece in play turns it to (rotation + 1) mod 4
\* clockwise and (rotation + 3) mod 4 counter-clockwise, in place if that
\* fits, else at the first kick offset of the table for which it fits; when
\* it fits at none the piece is as before.
C15_RotationTakesFirstFit ==
    [][(/\ state = "PLAYING"
        /\ currentPiece # NoPiece
        /\ op' \in {Press("ROTATE_CW"), Press("ROTATE_CCW")}) =>
          LET p == currentPiece
              to == IF op'.action = "ROTATE_CW" THEN (p.rotation + 1) % 4
                    ELSE (p.rotation + 3) % 4
              offsets == RotationOffsets(p.type, p.rotation, to)
              fit == {i \in 1..Len(offsets) :
                         Fits(grid, p.type, p.position.x + offsets[i].x,
                              p.position.y + offsets[i].y, to)}
          IN  IF fit = {} THEN currentPiece' = p
              ELSE \E i \in fit :
                      /\ \A j \in fit : i <= j
                      /\ currentPiece' =
                            [p EXCEPT !.rotation = to,
                                      !.position = [x |-> p.position.x + offsets[i].x,
                                                    y |-> p.position.y + offsets[i].y]]
    ]_vars

\* C15 witness: the upright I piece at the right wall was turned clockwise
\* and lies one column to the left, where the first kick puts it.
C15_Witness ==
    /\ state = "PLAYING"
    /\ op = Press("ROTATE_CW")
    /\ calls = 1
    /\ lastWasRotation
    /\ currentPiece.type = "I"
    /\ currentPiece.rotation = 2
    /\ currentPiece.position.x = 6
    /\ currentPiece.position.y > 5

\* the piece in play does not fit when moved by (dx, dy)
MoveRejected(dx, dy) ==
    ~Fits(grid, currentPiece.type, currentPiece.position.x + dx,
          currentPiece.position.y + dy, currentPiece.rotation)

\* the piece in play fits at no offset of the rotation to `to`
RotationRejected(to) ==
    \A i \in 1..Len(RotationOffsets(currentPiece.type, currentPiece.rotation, to)) :
        LET o == RotationOffsets(currentPiece.type, currentPiece.rotation, to)[i]
        IN  ~Fits(grid, currentPiece.type, currentPiece.position.x + o.x,
                  currentPiece.position.y + o.y, to)

\* the press o is rejected in the current state
Rejected(o) ==
    \/ o = Press("MOVE_LEFT") /\ MoveRejected(-1, 0)
    \/ o = Press("MOVE_RIGHT") /\ MoveRejected(1, 0)
    \/ o = Press("SOFT_DROP") /\ MoveRejected(0, 1)
    \/ o = Press("ROTATE_CW") /\ RotationRejected((currentPiece.rotation + 1) % 4)
    \/ o = Press("ROTATE_CCW") /\ RotationRejected((currentPiece.rotation + 3) % 4)
    \/ o = Press("HOLD") /\ ~canHold

C17_NotPlayingIsNoOp ==
    [][(/\ state # "PLAYING"
        /\ op'.name \in {"update", "handleInput"}
        /\ ~(state = "PAUSED" /\ op' = Press("PAUSE"))) =>
          /\ grid' = grid
          /\ currentPiece' = currentPiece
          /\ holdPiece' = holdPiece
          /\ stats' = stats
          /\ dropTimer' = dropTimer
          /\ lockTimer' = lockTimer
          /\ dasTimer' = dasTimer
          /\ state' = state
          /\ events' = <<>>
    ]_vars

\* C17 witness: pause was pressed on a game that is idle.
C17_Witness ==
    /\ state = "IDLE"
    /\ op = Press("PAUSE")
    /\ calls > 0

\* the events that tell of something other than the completion of the game
OtherEventTypes == {"line_clear", "piece_lock", "game_over", "level_up", "tspin", "combo"}

\* C18: the lock that leaves the line count at 999 or more makes the game
\* Completed, spawns no further piece, and emits an event that tells the
\* subscribers of the completion.
C18_CompletionSignalled ==
    [][("piece_lock" \in EventTypes(events') /\ stats'.lines >= TargetLines) =>
          /\ state' = "COMPLETED"
          /\ bag' = bag
          /\ \E i \in 1..Len(events') : events'[i].type \notin OtherEventTypes
    ]_vars

\* the step puts a new active piece at its spawn position: after a lock that
\* does not complete the game, or by a hold press that is allowed
NewPiecePlaced ==
    /\ state = "PLAYING"
    /\ currentPiece # NoPiece
    /\ op'.name \in {"update", "handleInput"}
    /\ \/ "piece_lock" \in EventTypes(events') /\ state' # "COMPLETED"
       \/ op' = Press("HOLD") /\ canHold

\* C19: whenever a new active piece is placed at its spawn position, after a
\* lock or by a hold, and does not fit on the board, the state becomes
\* GameOver and a game_over event is emitted; the state becomes GameOver in
\* no other way.
C19_GameOverIffSpawnBlocked ==
    [][/\ (/\ NewPiecePlaced
           /\ ~Fits(grid', currentPiece'.type, currentPiece'.position.x,
                    currentPiece'.position.y, currentPiece'.rotation))
          => (state' = "GAME_OVER" /\ "game_over" \in EventTypes(events'))
       /\ (state # "GAME_OVER" /\ state' = "GAME_OVER")
          => /\ NewPiecePlaced
             /\ currentPiece'.position = getSpawnPosition(currentPiece'.type)
             /\ ~Fits(grid', currentPiece'.type, currentPiece'.position.x,
                      currentPiece'.position.y, currentPiece'.rotation)
    ]_vars

\* C20: a soft-drop press that cannot move the piece, because it is blocked
\* below, marks the piece soft-locked; and an update of the lock delay of
\* 500 ms or more on a soft-locked piece locks it and, unless the game ends
\* with that lock, puts a new piece at its spawn position.
C20_SoftDropStartsLockDelay ==
    [][/\ (/\ state = "PLAYING"
           /\ currentPiece # NoPiece
           /\ op' = Press("SOFT_DROP")
           /\ MoveRejected(0, 1))
          => currentPiece'.locked
       /\ (/\ state = "PLAYING"
           /\ currentPiece # NoPiece
           /\ currentPiece.locked
           /\ op'.name = "update"
           /\ op'.deltaTime >= LOCK_DELAY)
          => /\ "piece_lock" \in EventTypes(events')
             /\ state' = "PLAYING" =>
                   /\ currentPiece'.position = getSpawnPosition(currentPiece'.type)
                   /\ ~currentPiece'.locked
    ]_vars

-----------------------------------------------------------------------------
(* Properties of the timers *)

\* the column step of the direction the auto-shift is armed for
DasStep == IF dasDirection = "left" THEN -1 ELSE 1

\* C21: while a direction is held and the piece is free to shift, the update
\* in which the held time comes to exceed the auto-shift delay of 170 ms
\* (such as update(200) right after the press) shifts the piece at least one
\* further cell in that direction.
C21_AutoRepeatStartsAfterDelay ==
    [][(/\ state = "PLAYING"
        /\ currentPiece # NoPiece
        /\ dasDirection # Null
        /\ op'.name = "update"
        /\ dasTimer < DAS_DELAY
        /\ dasTimer + op'.deltaTime > DAS_DELAY
        /\ ~MoveRejected(DasStep, 0)
        /\ "piece_lock" \notin EventTypes(events')) =>
          (currentPiece'.position.x - currentPiece.position.x) * DasStep >= 1
    ]_vars

\* the direction a MOVE action arms the auto-shift for
DirectionOf(action) == IF action = "MOVE_LEFT" THEN "left" ELSE "right"

\* C22: while Playing, a release of the direction the auto-shift is armed
\* for disarms it, and a release of the other direction leaves it armed with
\* its timer; while it is disarmed no update shifts the piece horizontally,
\* and only a direction press arms it again.
C22_ReleaseDisarmsDas ==
    [][/\ (/\ state = "PLAYING"
           /\ currentPiece # NoPiece
           /\ op' \in {Release("MOVE_LEFT"), Release("MOVE_RIGHT")})
          => IF dasDirection = DirectionOf(op'.action)
             THEN dasDirection' = Null
             ELSE dasDirection' = dasDirection /\ dasTimer' = dasTimer
       /\ (/\ state = "PLAYING"
           /\ currentPiece # NoPiece
           /\ dasDirection = Null
           /\ op'.name = "update")
          => /\ dasDirection' = Null
             /\ "piece_lock" \notin EventTypes(events')
                   => currentPiece'.position.x = currentPiece.position.x
       /\ (dasDirection = Null /\ dasDirection' # Null)
          => /\ op' \in {Press("MOVE_LEFT"), Press("MOVE_RIGHT")}
             /\ dasDirection' = DirectionOf(op'.action)
    ]_vars

\* C22 witness: after the release of the held direction, which had carried
\* the piece away from its spawn column, an update of 250 ms has passed and
\* the piece is in the same column, the auto-shift disarmed.
C22_Witness ==
    /\ state = "PLAYING"
    /\ op = Tick(250)
    /\ calls = 1
    /\ dasDirection = Null
    /\ dasTimer = 0
    /\ currentPiece # NoPiece
    /\ currentPiece.position.x > getSpawnPosition(currentPiece.type).x + 1
    /\ currentPiece.position.y < 5

-----------------------------------------------------------------------------
(* Properties of the subscribers *)

\* the callbacks registered for an event type, in the order of registration
Subscribers(handlers, type) ==
    IF type \in DOMAIN handlers THEN handlers[type] ELSE <<>>

\* the handler calls due for the events evs: for each event in turn, one
\* call of each callback registered for its type, in the order of registration
RECURSIVE Deliveries(_, _)
Deliveries(handlers, evs) ==
    IF evs = <<>> THEN <<>>
    ELSE [i \in 1..Len(Subscribers(handlers, Head(evs).type)) |->
             [handler |-> Subscribers(handlers, Head(evs).type)[i], event |-> Head(evs)]]
         \o Deliveries(handlers, Tail(evs))

\* C23: every event a call raises is delivered within the call to each
\* callback registered for its type, once per registration and in the order
\* of registration; on(event, handler) registers the callback behind those
\* registered before; and after off(event, handler) the callback is no
\* longer registered for the event, so that no later event reaches it.
C23_EventDelivery ==
    [][/\ invoked' = Deliveries(eventHandlers, events')
       /\ op'.name = "on"
             => Subscribers(eventHandlers', op'.event)
                   = Append(Subscribers(eventHandlers, op'.event), op'.handler)
       /\ op'.name = "off"
             => \A i \in 1..Len(Subscribers(eventHandlers', op'.event)) :
                   Subscribers(eventHandlers', op'.event)[i] # op'.handler
    ]_vars

-----------------------------------------------------------------------------
(* Properties of the accessors *)

\* C24: a write to an object that an accessor returned (the stats, the
\* grid, the active piece, the preview list, the ghost position) leaves the
\* game as it was: its board, stats, active piece, held piece, sequencer and
\* timers, and with them the result of every later query.
C24_AccessorsReturnSnapshots ==
    [][op'.name = "write" =>
          /\ grid' = grid
          /\ stats' = stats
          /\ currentPiece' = currentPiece
          /\ holdPiece' = holdPiece
          /\ bag' = bag
          /\ state' = state
          /\ <<dropTimer', lockTimer', dasTimer'>> = <<dropTimer, lockTimer, dasTimer>>
    ]_vars

-----------------------------------------------------------------------------
(* Properties of start and reset *)

\* the game after the step is zeroed: no score, lines, level or combo, no
\* back-to-back, an empty board, nothing held, hold allowed, timers and
\* auto-shift cleared
ZeroedAfter ==
    /\ stats' = [score |-> 0, level |-> 0, lines |-> 0, combo |-> 0, backToBack |-> FALSE]
    /\ \A y \in 1..TOTAL_HEIGHT : \A x \in 1..BOARD_WIDTH : grid'[y][x] = Null
    /\ holdPiece' = Null
    /\ canHold'
    /\ dropTimer' = 0
    /\ lockTimer' = 0
    /\ dasTimer' = 0
    /\ dasDirection' = Null

\* C25: reset() leaves the game Idle, zeroed and without active piece,
\* whatever its state was; start() leaves it Playing, zeroed and with an
\* active piece at the spawn position of its type, not turned and not
\* soft-locked; and no other call zeroes stats that were not zero or lowers
\* the score, the lines or the level.
C25_ResetAndStartZero ==
    [][/\ op'.name = "reset"
             => ZeroedAfter /\ state' = "IDLE" /\ currentPiece' = NoPiece
       /\ op'.name = "start"
             => /\ ZeroedAfter
                /\ state' = "PLAYING"
                /\ currentPiece'.type \in Types
                /\ currentPiece'.position = getSpawnPosition(currentPiece'.type)
                /\ currentPiece'.rotation = 0
                /\ ~currentPiece'.locked
       /\ op'.name \notin {"reset", "start"}
             => /\ stats # ZeroStats => stats' # ZeroStats
                /\ stats'.score >= stats.score
                /\ stats'.lines >= stats.lines
                /\ stats'.level >= stats.level
    ]_vars

\* C25 witness: reset was called on a game played along a script, and the
\* game is idle, zeroed and without active piece.
C25_Witness ==
    /\ op.name = "reset"
    /\ calls = 1
    /\ state = "IDLE"
    /\ stats = ZeroStats
    /\ holdPiece = Null
    /\ currentPiece = NoPiece

-----------------------------------------------------------------------------
(* Properties of the lock delay and of gravity *)

\* the step is an update of a game in play
PlayingUpdate == state = "PLAYING" /\ currentPiece # NoPiece /\ op'.name = "update"

\* the step locks the active piece
Locks == "piece_lock" \in EventTypes(events')

\* C26: an update that leaves the piece soft-locked and in play has added
\* its deltaTime to the lock timer, counted from 0 if the auto-shift moved the
\* piece in that update, and the timer is below the lock delay of 500 ms; an
\* update locks the piece only if the timer with the deltaTime reaches the
\* delay; a direction or rotation press that moves a soft-locked piece sets
\* the timer to 0; and the timer of a piece that is not soft-locked is 0.
C26_LockDelay ==
    [][/\ (PlayingUpdate /\ ~Locks /\ currentPiece'.locked)
          => /\ lockTimer' = (IF currentPiece'.position.x # currentPiece.position.x
                              THEN 0 ELSE lockTimer) + op'.deltaTime
             /\ lockTimer' < 500 * TicksPerMs
       /\ (PlayingUpdate /\ Locks)
          => lockTimer + op'.deltaTime >= 500 * TicksPerMs
       /\ (/\ state = "PLAYING"
           /\ currentPiece # NoPiece
           /\ currentPiece.locked
           /\ op' \in {Press("MOVE_LEFT"), Press("MOVE_RIGHT"),
                       Press("ROTATE_CW"), Press("ROTATE_CCW")}
           /\ currentPiece' # currentPiece)
          => lockTimer' = 0
       /\ (currentPiece' # NoPiece /\ ~currentPiece'.locked) => lockTimer' = 0
    ]_vars

\* C26 witness: an update of 250 ms on a soft-locked piece whose timer stood
\* at 250 ms has locked it.
C26_Witness ==
    /\ op = Tick(250)
    /\ calls = 1
    /\ \E i \in 1..Len(events) :
          events[i].type = "piece_lock" /\ events[i].data.piece.locked
    /\ state = "PLAYING"
    /\ lockTimer = 0

\* a frame of 1000/60 ms, in ticks
Frame == (1000 * TicksPerMs) \div 60

\* the drop interval of a level, in ticks: max(1, 48 - 2 * level) frames
DropInterval(level) == (IF 48 - 2 * level > 1 THEN 48 - 2 * level ELSE 1) * Frame

\* the descent attempts an update of deltaTime makes
Attempts(deltaTime) == (dropTimer + deltaTime) \div DropInterval(stats.level)

\* what an update of deltaTime leaves of the drop timer after its attempts
TimerLeft(deltaTime) ==
    (dropTimer + deltaTime) - Attempts(deltaTime) * DropInterval(stats.level)

\* the number of rows the piece can descend from (x, y) before it is blocked
Descent(type, x, y, rotation) ==
    CHOOSE k \in 0..TOTAL_HEIGHT :
        /\ ~Fits(grid, type, x, y + k + 1, rotation)
        /\ \A j \in 1..k : Fits(grid, type, x, y + j, rotation)

\* the active piece p after n descent attempts in column x: down by the rows
\* it can descend, and soft-locked if an attempt failed
Descended(p, x, n) ==
    [p EXCEPT !.position = [x |-> x, y |-> p.position.y
                                           + Min(n, Descent(p.type, x, p.position.y,
                                                            p.rotation))],
              !.locked = @ \/ n > Descent(p.type, x, p.position.y, p.rotation)]

\* C27 as stated: every update of a game in play makes
\* floor((dropTimer + deltaTime) / I) descent attempts, I being
\* max(1, 48 - 2 * level) frames, a failed attempt only marks the piece
\* soft-locked, and the drop timer after the update is what the attempts
\* leave of dropTimer + deltaTime.
C27_GravityAttempts ==
    [][PlayingUpdate =>
          /\ dropTimer' = TimerLeft(op'.deltaTime)
          /\ ~Locks => currentPiece' = Descended(currentPiece, currentPiece'.position.x,
                                                 Attempts(op'.deltaTime))
    ]_vars

\* C27 amended: as stated for every update that does not lock the piece and
\* for the lock that completes the game; an update that locks the piece and
\* brings the next one leaves the drop timer at 0, and the piece was locked
\* where the attempts had taken it.
C27_GravityAttemptsUnlessLocked ==
    [][PlayingUpdate =>
          /\ dropTimer' = IF Locks /\ state' # "COMPLETED" THEN 0
                          ELSE TimerLeft(op'.deltaTime)
          /\ ~Locks => currentPiece' = Descended(currentPiece, currentPiece'.position.x,
                                                 Attempts(op'.deltaTime))
          /\ Locks => \E i \in 1..Len(events') :
                         /\ events'[i].type = "piece_lock"
                         /\ events'[i].data.piece =
                               Descended(currentPiece, events'[i].data.piece.position.x,
                                         Attempts(op'.deltaTime))
    ]_vars

\* C27 witness: at level 29, where the interval is one frame, an update of
\* 250 ms has taken the piece 15 rows down from its spawn position.
C27_Witness ==
    /\ state = "PLAYING"
    /\ op = Tick(250)
    /\ calls = 1
    /\ stats.level = 29
    /\ dropTimer = 0
    /\ ~currentPiece.locked
    /\ currentPiece.position.y = getSpawnPosition(currentPiece.type).y + 15

-----------------------------------------------------------------------------
(* Properties of the auto-shift *)

\* the auto-shift attempts due after a direction was held for T ticks
Shifts(T) ==
    IF T < 170 * TicksPerMs THEN 0
    ELSE (T - 170 * TicksPerMs) \div (50 * TicksPerMs)

\* the number of columns the piece can shift from (x, y) in steps of `step`
Room(type, x, y, rotation, step) ==
    CHOOSE k \in 0..BOARD_WIDTH :
        /\ \A j \in 1..k : Fits(grid, type, x + step * j, y, rotation)
        /\ ~Fits(grid, type, x + step * (k + 1), y, rotation)

\* the column the press took the piece to from its spawn position
PressedColumn == getSpawnPosition(currentPiece.type).x + DasStep

-----------------------------------------------------------------------------
(* Properties of the hard drop and of the hold *)

\* the piece p on its ghost position: as many rows down as it can descend
Landed(p) ==
    [p EXCEPT !.position.y = @ + Descent(p.type, p.position.x, p.position.y, p.rotation)]

\* the grid with the cells of the piece p written into it
Stamped(p) ==
    LET cells == {<<c[1] + p.position.x + 1, c[2] + p.position.y + 1>> :
                     c \in Filled(p.type, p.rotation)}
        type == p.type
    IN  [y \in 1..TOTAL_HEIGHT |-> [x \in 1..BOARD_WIDTH |->
            IF <<x, y>> \in cells THEN type ELSE grid[y][x]]]

\* C29: a hard-drop press locks the active piece within the call on its
\* ghost position, in the same column and rotation, whether or not it was
\* soft-locked; the score grows by 2 for each row between the position
\* before and the ghost position (and by the score of the lines the lock
\* clears, if any), and unless lines are cleared the board afterwards is the
\* board before with the cells of the ghost position written.
C29_HardDropLocksAtGhost ==
    [][(state = "PLAYING" /\ currentPiece # NoPiece /\ op' = Press("HARD_DROP")) =>
          /\ \E i \in 1..Len(events') :
                /\ events'[i].type = "piece_lock"
                /\ events'[i].data.piece = Landed(currentPiece)
          /\ IF "line_clear" \in EventTypes(events')
             THEN stats'.score > stats.score
                     + 2 * (Landed(currentPiece).position.y - currentPiece.position.y)
             ELSE /\ stats'.score = stats.score
                        + 2 * (Landed(currentPiece).position.y - currentPiece.position.y)
                  /\ grid' = Stamped(Landed(currentPiece))
    ]_vars

\* C29 witness: a hard drop has locked, more than 15 rows below its spawn
\* position, a piece that was not soft-locked, and the game goes on.
C29_Witness ==
    /\ op = Press("HARD_DROP")
    /\ calls = 1
    /\ state = "PLAYING"
    /\ stats.score > 30
    /\ \E i \in 1..Len(events) :
          /\ events[i].type = "piece_lock"
          /\ ~events[i].data.piece.locked
          /\ events[i].data.piece.position.y > 16

\* the pieces the sequencer b holds ready, the next draw first
Queue(b) == b.currentBag \o b.nextBag

\* C30: a hold press while hold is allowed makes the type of the active
\* piece the held type; if nothing was held, the new active piece is the
\* next draw of the sequencer, which is taken off its queue and nothing
\* else; if a type was held, the new active piece is of that type and the
\* sequencer is as before; either way the new piece is at the spawn position
\* of its type, not turned and not soft-locked, and the drop and lock timers
\* are 0.
C30_HoldSwapsOrDraws ==
    [][(state = "PLAYING" /\ currentPiece # NoPiece /\ op' = Press("HOLD") /\ canHold) =>
          /\ holdPiece' = currentPiece.type
          /\ IF holdPiece = Null
             THEN /\ currentPiece'.type = Head(Queue(bag))
                  /\ SubSeq(Queue(bag'), 1, Len(Queue(bag)) - 1) = Tail(Queue(bag))
             ELSE /\ currentPiece'.type = holdPiece
                  /\ bag' = bag
          /\ currentPiece'.position = getSpawnPosition(currentPiece'.type)
          /\ currentPiece'.rotation = 0
          /\ ~currentPiece'.locked
          /\ dropTimer' = 0
          /\ lockTimer' = 0
    ]_vars

\* C30 witness: a hold press has put a piece at its spawn position and a
\* type into the hold, after a piece had been dropped.
C30_Witness ==
    /\ op = Press("HOLD")
    /\ calls = 1
    /\ state = "PLAYING"
    /\ ~canHold
    /\ holdPiece \in Types
    /\ grid # createEmptyGrid
    /\ currentPiece.position = getSpawnPosition(currentPiece.type)

-----------------------------------------------------------------------------
(* Properties of the combo and of the spin *)

\* the piece the step locked, as the lock event carries it
LockedPiece ==
    events'[CHOOSE i \in 1..Len(events') : events'[i].type = "piece_lock"].data.piece

\* the lock of the step completes a row: the grid with the cells of the
\* locked piece written has a row without an empty cell
LockCompletesRow == \E r \in 1..TOTAL_HEIGHT : RowFull(Stamped(LockedPiece)[r])

\* the counts carried by the combo events of the step
ComboCounts == {events'[i].data.combo : i \in {j \in 1..Len(events') : events'[j].type = "combo"}}

\* C31: a lock that completes a row adds one to the combo, a lock that
\* completes none sets it to 0, start and reset set it to 0 and no other call
\* changes it, so that the combo is the number of the latest locks in a row
\* that cleared lines; a combo event is emitted only by a lock that completes
\* a row and brings the combo above 1, and it carries the new combo.
C31_ComboCountsClearingLocks ==
    [][IF Locks
       THEN /\ stats'.combo = IF LockCompletesRow THEN stats.combo + 1 ELSE 0
            /\ ComboCounts = IF LockCompletesRow /\ stats.combo + 1 > 1
                             THEN {stats'.combo} ELSE {}
       ELSE /\ stats'.combo = IF op'.name \in {"start", "reset"} THEN 0 ELSE stats.combo
            /\ ComboCounts = {}
    ]_vars

\* C31 witness: the second of two locks in a row that cleared a line has
\* brought the combo to 2 and emitted the combo event.
C31_Witness ==
    /\ op = Press("HARD_DROP")
    /\ calls = 1
    /\ stats.combo = 2
    /\ stats.lines = 2
    /\ EventTypes(events) = {"piece_lock", "combo", "line_clear"}

\* the corners of the 3x3 box of the piece p, as <<column, row>>
Corners(p) ==
    {<<p.position.x + dx, p.position.y + dy>> : dx \in {0, 2}, dy \in {0, 2}}

\* the corners of the box of p that are outside the board or on an occupied cell
TakenCorners(p) ==
    {c \in Corners(p) :
        \/ c[1] < 0 \/ c[1] >= BOARD_WIDTH \/ c[2] < 0 \/ c[2] >= TOTAL_HEIGHT
        \/ grid[c[2] + 1][c[1] + 1] # Null}

\* the positions of the events of the given type among the events of the step
EventsAt(type) == {i \in 1..Len(events') : events'[i].type = type}

\* the step is a call that leaves the same piece active: no lock, no hold,
\* no start and no reset
SamePiece ==
    /\ ~Locks
    /\ state = "PLAYING" /\ currentPiece # NoPiece
    /\ op'.name \in {"update", "handleInput"}
    /\ op' # Press("HOLD")

\* C32: the rotation record is set by a call that turns the piece, cleared
\* by a call that moves it without turning it, and kept by a call that does
\* neither; a lock emits a spin event exactly when the locked piece is a T,
\* the record is set and the call did not move the piece before the lock, and
\* at least 3 of the 4 corners of its box are occupied or outside the board;
\* the spin event comes before the lock event and the lock event before the
\* line-clear event; no call that does not lock emits a spin event.
C32_SpinEvent ==
    [][/\ SamePiece =>
             lastWasRotation' =
                 IF currentPiece'.rotation # currentPiece.rotation THEN TRUE
                 ELSE IF currentPiece'.position # currentPiece.position THEN FALSE
                 ELSE lastWasRotation
       /\ Locks =>
             /\ (EventsAt("tspin") # {}) <=>
                   /\ LockedPiece.type = "T"
                   /\ lastWasRotation
                   /\ LockedPiece.position = currentPiece.position
                   /\ Cardinality(TakenCorners(LockedPiece)) >= 3
             /\ \A i \in EventsAt("tspin"), j \in EventsAt("piece_lock") : i < j
             /\ \A i \in EventsAt("piece_lock"), j \in EventsAt("line_clear") : i < j
       /\ ~Locks => EventsAt("tspin") = {}
    ]_vars

\* C32 witness: a hard drop has locked, where it was, a T piece that had been
\* turned into the last column, and the spin event came first.
C32_Witness ==
    /\ op = Press("HARD_DROP")
    /\ calls = 1
    /\ Len(events) = 2
    /\ events[1].type = "tspin"
    /\ events[2].type = "piece_lock"
    /\ events[2].data.piece.type = "T"
    /\ events[2].data.piece.rotation = 3

-----------------------------------------------------------------------------
(* Properties of the grid *)

\* the grid g after its full rows are taken out and as many empty rows are
\* put on top
WithoutFullRows(g) ==
    LET kept == KeptRows(g)
        gone == TOTAL_HEIGHT - Len(kept)
    IN  [y \in 1..TOTAL_HEIGHT |-> IF y <= gone THEN EmptyRow ELSE kept[y - gone]]

-----------------------------------------------------------------------------
(* Properties of the locked cells *)

\* C34: a piece is written into the board only where it rests: when a call
\* locks a piece, by the expiry of the lock delay or by a hard drop, the
\* position one row below the position it is locked at is invalid.
C34_LockedPieceRests ==
    [][Locks => ~Fits(grid, LockedPiece.type, LockedPiece.position.x,
                      LockedPiece.position.y + 1, LockedPiece.rotation)]_vars

\* the number of occupied cells of the grid g
Occupied(g) ==
    Cardinality({c \in (1..BOARD_WIDTH) \X (1..TOTAL_HEIGHT) : g[c[2]][c[1]] # Null})

\* the number of rows without an empty cell of the grid g
FullRowCount(g) == Cardinality({r \in 1..TOTAL_HEIGHT : RowFull(g[r])})

\* C35: a lock leaves 4 occupied cells more than there were, less 10 for
\* every row it completes.
C35_LockAddsFourCells ==
    [][Locks => Occupied(grid') = Occupied(grid) + 4
                                  - 10 * FullRowCount(Stamped(LockedPiece))]_vars

\* C36: no row of the grid is without an empty cell, in any state a call of
\* start, update or handleInput leaves; a lock completes at most 4 rows, and
\* when it completes any, its line-clear event lists as many rows as it
\* completed, between 1 and 4.
C36_NoFullRowRemains ==
    /\ [](FullRowCount(grid) = 0)
    /\ [][Locks =>
             /\ FullRowCount(Stamped(LockedPiece)) \in 0..4
             /\ (EventsAt("line_clear") = {}) <=> (FullRowCount(Stamped(LockedPiece)) = 0)
             /\ \A i \in EventsAt("line_clear") :
                   /\ Len(events'[i].data.lines) = FullRowCount(Stamped(LockedPiece))
                   /\ Len(events'[i].data.lines) \in 1..4
       ]_vars

\* C36 witness: a hard drop has completed two rows at once, both are gone
\* and cells of the piece that completed them remain.
C36_Witness ==
    /\ op = Press("HARD_DROP")
    /\ calls = 1
    /\ stats.lines = 2
    /\ stats.combo = 1
    /\ FullRowCount(grid) = 0
    /\ grid # createEmptyGrid

-----------------------------------------------------------------------------
(* Properties of the keyboard *)

\* the keys that are down
KeysDown == {pressedKeys[i] : i \in 1..Len(pressedKeys)}

\* C37: the auto-shift acts only while the key of its direction is held: an
\* update moves the piece to the left only while the left key is down and
\* to the right only while the right key is down, whatever presses,
\* releases, pauses and updates came before.
C37_DasOnlyWhileHeld ==
    [][(op'.name = "update" /\ ~Locks) =>
          /\ currentPiece'.position.x < currentPiece.position.x => "ArrowLeft" \in KeysDown
          /\ currentPiece'.position.x > currentPiece.position.x => "ArrowRight" \in KeysDown
    ]_vars

-----------------------------------------------------------------------------
(* Properties of the rotation record across pieces *)

\* the step is a call that makes another piece the active one: a lock, a
\* start, a reset, or a hold press while hold is allowed
NewPiece ==
    \/ Locks
    \/ op'.name \in {"start", "reset"}
    \/ /\ op' = Press("HOLD")
       /\ state = "PLAYING" /\ currentPiece # NoPiece /\ canHold

\* C38: the rotation record belongs to the active piece: a call that makes
\* another piece the active one, a hold swap included, leaves the record
\* cleared; the record becomes set only by a rotation press that turns the
\* active piece; and a lock emits a spin event only if the record was set
\* before the call and the call locked the piece where it was.
C38_RecordOfActivePiece ==
    [][/\ (NewPiece /\ currentPiece' # NoPiece) => ~lastWasRotation'
       /\ (lastWasRotation' /\ ~lastWasRotation) =>
             /\ op' \in {Press("ROTATE_CW"), Press("ROTATE_CCW")}
             /\ currentPiece'.type = currentPiece.type
             /\ currentPiece'.rotation # currentPiece.rotation
       /\ (Locks /\ EventsAt("tspin") # {}) =>
             /\ lastWasRotation
             /\ LockedPiece.type = currentPiece.type
             /\ LockedPiece.position = currentPiece.position
             /\ LockedPiece.rotation = currentPiece.rotation
    ]_vars

-----------------------------------------------------------------------------
(* Properties of the buffers of the sequencer *)

\* the entries of the buffer q are piece types, each at most once
DistinctTypes(q) ==
    /\ \A i \in 1..Len(q) : q[i] \in Types
    /\ \A i, j \in 1..Len(q) : q[i] = q[j] => i = j

\* C40: after every call of the sequencer the next buffer holds each of the
\* 7 types once and the current buffer holds at most 7 entries, distinct
\* types; and preview(n) with n <= 7 leaves the sequencer, its generator
\* state included, as it was.
C40_BuffersHoldDistinctTypes ==
    [][/\ Len(bag'.nextBag) = 7
       /\ DistinctTypes(bag'.nextBag)
       /\ Len(bag'.currentBag) \in 0..7
       /\ DistinctTypes(bag'.currentBag)
       /\ (op'.name = "preview" /\ lastPreview'.count <= 7) => bag' = bag
    ]_vars

-----------------------------------------------------------------------------
(* Properties of the game left alone *)

\* the last call was an update that locked a piece of type t
LockedByUpdate(t) ==
    /\ op.name = "update"
    /\ \E i \in 1..Len(events) :
          events[i].type = "piece_lock" /\ events[i].data.piece.type = t

\* C39: while the game is Playing and update goes on being called with
\* positive deltaTimes and no input, the active piece is locked by a later
\* update, whatever its type, and the game comes to GameOver or Completed;
\* the drop interval the gravity loop of update counts down by is positive
\* throughout, so the loop ends.
C39_ProgressWithoutInput ==
    /\ \A t \in Types :
          (state = "PLAYING" /\ currentPiece.type = t) ~> LockedByUpdate(t)
    /\ <>(state \in {"GAME_OVER", "COMPLETED"})
    /\ [](DropInterval(stats.level) > 0)

\* C39 witness: an update has locked a piece and the piece that came next
\* does not fit where it appears, which ends the game.
C39_Witness ==
    /\ op.name = "update"
    /\ state = "GAME_OVER"
    /\ EventTypes(events) = {"piece_lock", "game_over"}

=============================================================================
